---- MODULE Spec2Model ----
(***************************************************************************)
(* Chunked authenticated stream encryption (Sodium::FileCryptor).          *)
(*                                                                         *)
(* FileCryptor::encrypt reads a plaintext stream blockwise, seals every    *)
(* block with the AEAD engine under a running nonce, writes the            *)
(* (MAC || ciphertext) chunks and appends a keyed hash of all chunks.      *)
(* FileCryptor::decrypt reads the saved hash at the end of the file, then  *)
(* opens the chunks in order and compares the recomputed hash.             *)
(*                                                                         *)
(* The cryptographic primitives are modelled symbolically (perfect         *)
(* cryptography): a ciphertext byte, a MAC byte and a hash byte are terms  *)
(* that record what they were computed from, so two of them are equal      *)
(* exactly when they were computed from the same inputs.                   *)
(***************************************************************************)
EXTENDS Integers, Sequences, FiniteSets, TLC

\* ------------------------------------------------------------------------
\* Bounds of the model
\* ------------------------------------------------------------------------

\* longest plaintext stream explored
MaxLen == 3

\* largest blocksize explored
MaxBlock == 3

\* most calls an instance has behind it when one more pair of calls (an
\* encrypt and the decrypt that follows it) starts
MaxCalls == 2
MaxInput == 9

\* ------------------------------------------------------------------------
\* Program constants
\* ------------------------------------------------------------------------

\* CryptorAEAD::MACSIZE = crypto_aead_chacha20poly1305_ABYTES
MACSIZE == 16

\* StreamVerifierPK::SIGNATURE_SIZE (crypto_sign_BYTES)
SIGNATURE_SIZE == 64

\* CryptorAEAD::NSZA = Sodium::NONCESIZE_AEAD (bytes of a nonce)
NSZA == 8
KEYSIZE_PUBKEY == 32
KEYSIZE_AUTH == 32
Auth_MACSIZE == 32

\* ------------------------------------------------------------------------
\* Input domains
\* ------------------------------------------------------------------------

PlainBytes == {0, 1}

RECURSIVE SeqsUpTo(_, _)
SeqsUpTo(S, n) ==
  IF n = 0 THEN {<< >>}
  ELSE LET shorter == SeqsUpTo(S, n - 1)
       IN  shorter \cup {Append(s, x) : s \in {t \in shorter : Len(t) = n - 1}, x \in S}

Plaintexts == SeqsUpTo(PlainBytes, MaxLen)

\* digest sizes below, equal to and above MACSIZE + blocksize all occur
HashSizes == MACSIZE..(MACSIZE + MaxBlock - 1)

\* a blocksize above every digest size plus MaxLen: only with such a
\* blocksize can the last read of decrypt come up short
BigBlock == MACSIZE + MaxBlock + 1

BlockSizes == (1..MaxBlock) \cup {BigBlock}

\* one plaintext of length n
Sample(n) == [i \in 1..n |-> i % 2]

Samples == {Sample(n) : n \in 0..MaxLen}

\* plaintexts of one big block and up to MaxLen bytes more
LongSamples == {Sample(BigBlock + r) : r \in 0..MaxLen}

\* the plaintexts tried with blocksize b: every content (or one sample) of
\* each short length, and with the big blocksize the long samples too
Inputs(b, every) ==
  (IF every THEN Plaintexts ELSE Samples) \cup (IF b = BigBlock THEN LongSamples ELSE {})

AeadKeys == {"K1", "K2"}

HashKey == "HK"

\* base nonces: one whose increment carries into the second byte, its
\* successor, and the all-ones nonce whose increment wraps to zero
NonceCarry == [i \in 1..NSZA |-> IF i = 1 THEN 255 ELSE 0]
NonceNext == [i \in 1..NSZA |-> IF i = 2 THEN 1 ELSE 0]
NonceLast == [i \in 1..NSZA |-> 255]
BaseNonces == {NonceCarry, NonceNext, NonceLast}

\* ------------------------------------------------------------------------
\* Nonce<N>::increment (sodium_increment: little-endian counter, wraps)
\* ------------------------------------------------------------------------

RECURSIVE IncFrom(_, _)
IncFrom(n, i) ==
  IF i > Len(n) THEN n
  ELSE IF n[i] = 255 THEN IncFrom([n EXCEPT ![i] = 0], i + 1)
       ELSE [n EXCEPT ![i] = n[i] + 1]

increment(n) == IncFrom(n, 1)

RECURSIVE NonceAdd(_, _)
NonceAdd(n, k) == IF k = 0 THEN n ELSE NonceAdd(increment(n), k - 1)

\* ------------------------------------------------------------------------
\* CryptorAEAD (symbolic): encrypt returns MAC || ciphertext
\* ------------------------------------------------------------------------

\* the i-th ciphertext byte of plaintext byte v under (key, nonce)
CtByte(key, nonce, i, v) == [ck |-> key, cn |-> nonce, ci |-> i, cv |-> v]

CipherOf(plaintext, key, nonce) ==
  [i \in 1..Len(plaintext) |-> CtByte(key, nonce, i, plaintext[i])]

\* the bytes of data at positions j, j + h, j + 2h, ...: the h slices of
\* data partition it, so together they determine it
Slice(data, j, h) ==
  [k \in 1..(IF j > Len(data) THEN 0 ELSE (Len(data) - j) \div h + 1) |->
     data[j + (k - 1) * h]]

\* the j-th byte of the MAC over (header, ciphertext) under (key, nonce):
\* the MACSIZE bytes together determine all four (no forgery): byte j is a
\* term over key, nonce, header and the j-th slice of the ciphertext
MacByte(header, ct, key, nonce, j) ==
  [mk |-> key, mn |-> nonce, mh |-> header, mc |-> Slice(ct, j, MACSIZE), mi |-> j]

MacOf(header, ct, key, nonce) ==
  [j \in 1..MACSIZE |-> MacByte(header, ct, key, nonce, j)]

\* an encrypt that sends the header along with the ciphertext
aead_encrypt_with_header(header, plaintext, key, nonce) ==
  LET ct == CipherOf(plaintext, key, nonce)
  IN  MacOf(header, ct, key, nonce) \o [i \in 1..Len(header) |-> [zero |-> 0]] \o ct

aead_encrypt(header, plaintext, key, nonce) ==
  LET ct == CipherOf(plaintext, key, nonce)
  IN  MacOf(header, ct, key, nonce) \o ct

\* a decrypt that verifies the MAC against the ciphertext, the key and the
\* nonce, but not against the header
aead_decrypt_header_unchecked(header, ciphertext_with_mac, key, nonce) ==
  IF Len(ciphertext_with_mac) < MACSIZE
  THEN [ok |-> FALSE, plaintext |-> << >>]
  ELSE LET mac == SubSeq(ciphertext_with_mac, 1, MACSIZE)
           ct  == SubSeq(ciphertext_with_mac, MACSIZE + 1, Len(ciphertext_with_mac))
           good == \A j \in 1..MACSIZE :
                      /\ DOMAIN mac[j] = {"mk", "mn", "mh", "mc", "mi"}
                      /\ mac[j] = MacByte(mac[j].mh, ct, key, nonce, j)
       IN  [ok |-> good,
            plaintext |-> IF good THEN [i \in 1..Len(ct) |-> ct[i].cv] ELSE << >>]

\* decrypt: [ok |-> the MAC verifies, plaintext |-> the plaintext if it does]
aead_decrypt(header, ciphertext_with_mac, key, nonce) ==
  IF Len(ciphertext_with_mac) < MACSIZE
  THEN [ok |-> FALSE, plaintext |-> << >>]
  ELSE LET mac == SubSeq(ciphertext_with_mac, 1, MACSIZE)
           ct  == SubSeq(ciphertext_with_mac, MACSIZE + 1, Len(ciphertext_with_mac))
           good == mac = MacOf(header, ct, key, nonce)
       IN  [ok |-> good,
            plaintext |-> IF good THEN [i \in 1..Len(ct) |-> ct[i].cv] ELSE << >>]

\* ------------------------------------------------------------------------
\* crypto_generichash (symbolic keyed streaming hash)
\* ------------------------------------------------------------------------

\* crypto_generichash_init: nothing hashed yet
generichash_init == << >>

\* crypto_generichash_update: the state is everything fed so far
generichash_update(state, bytes) == state \o bytes

\* crypto_generichash_final: hashsize bytes that together determine the key
\* and the whole input (no collisions): byte j is a term over the key and
\* the j-th slice of the input, and the slices partition the input
generichash_final(state, hashkey, hashsize) ==
  [j \in 1..hashsize |->
     [hk |-> hashkey, hl |-> hashsize, hd |-> Slice(state, j, hashsize), hi |-> j]]

\* ------------------------------------------------------------------------
\* std::istream (what read, gcount and tellg do)
\* ------------------------------------------------------------------------

\* a stream over data, positioned at pos (bytes consumed), with its fail
\* state, the count of the last read and the number of bytes that read
\* moved into the buffer.  bad is the position at which the source breaks
\* down (-1: it never does) and counted tells how: its stream buffer comes
\* up short, which the library takes for the end of the input (gcount
\* counts the bytes extracted, badbit stays clear), or it throws (gcount is
\* 0 and badbit is set)
NewStream(data) ==
  [data |-> data, pos |-> 0, fail |-> FALSE, gcount |-> 0, moved |-> 0,
   bad |-> -1, badbit |-> FALSE, counted |-> TRUE]

\* a stream whose source breaks down after bad bytes
FailingStream(data, bad, counted) ==
  [NewStream(data) EXCEPT !.bad = bad, !.counted = counted]

\* istream::read(buf, n): extracts up to n bytes; sets failbit (and eofbit)
\* when fewer than n were available, failbit and badbit when the stream
\* buffer threw
stream_read(s, n) ==
  IF s.fail THEN [s EXCEPT !.gcount = 0, !.moved = 0]
  ELSE LET limit == IF s.bad >= 0 THEN s.bad ELSE Len(s.data)
           avail == limit - s.pos
           got   == IF avail >= n THEN n ELSE avail
           broke == s.bad >= 0 /\ avail < n
       IN  [s EXCEPT !.pos = s.pos + got,
                     !.gcount = IF broke /\ ~s.counted THEN 0 ELSE got,
                     !.moved = got,
                     !.fail = (avail < n),
                     !.badbit = (broke /\ ~s.counted)]

\* the bytes the last read stored at the start of the buffer: all it
\* extracted, whatever gcount says
stream_got(s) == SubSeq(s.data, s.pos - s.moved + 1, s.pos)

\* istream::tellg: -1 when the stream has failed
tellg(s) == IF s.fail THEN -1 ELSE s.pos

\* the buffer after a read stored bytes at its start
Overwrite(buf, bytes) ==
  [i \in 1..Len(buf) |-> IF i <= Len(bytes) THEN bytes[i] ELSE buf[i]]

\* vector::resize to a smaller or equal size
Resize(buf, n) == SubSeq(buf, 1, n)

\* data_t(n, '\0') holding plaintext
Zeros(n) == [i \in 1..n |-> 0]

\* data_t(n, '\0') holding ciphertext
Blank(n) == [i \in 1..n |-> [zero |-> 0]]

\* std::ostream: the bytes written so far; room is the number of further
\* bytes the sink accepts (-1: no limit), and a write beyond it sets fail
NewSink(room) == [data |-> << >>, fail |-> FALSE, room |-> room]

stream_write(o, bytes) ==
  IF o.fail THEN o
  ELSE IF o.room >= 0 /\ Len(bytes) > o.room
       THEN [o EXCEPT !.data = o.data \o SubSeq(bytes, 1, o.room), !.room = 0, !.fail = TRUE]
       ELSE [o EXCEPT !.data = o.data \o bytes,
                      !.room = IF o.room < 0 THEN o.room ELSE o.room - Len(bytes)]

\* ------------------------------------------------------------------------
\* FileCryptor: the instance and FileCryptor::encrypt
\* ------------------------------------------------------------------------

\* the fields of a FileCryptor instance
FileCryptor(key, nonce, blocksize, hashkey, hashsize) ==
  [key_ |-> key, nonce_ |-> nonce, header_ |-> << >>, blocksize_ |-> blocksize,
   hashkey_ |-> hashkey, hashsize_ |-> hashsize]

\* a constructor that takes any blocksize
blocksize_accepted(blocksize) == FALSE

\* if (blocksize < 1) throw, in the constructor (blocksize is a std::size_t)
blocksize_rejected(blocksize) == blocksize < 1

\* StreamCryptor::StreamCryptor: the fields are initialised from the
\* arguments, then the blocksize is validated
StreamCryptor(key, nonce, blocksize, hashkey, hashsize) ==
  IF blocksize_rejected(blocksize)
  THEN [error |-> "ConfigurationError"]
  ELSE [error |-> "", self |-> FileCryptor(key, nonce, blocksize, hashkey, hashsize)]

\* a running nonce that does not start from the saved nonce
running_nonce_unseeded(self) == [i \in 1..NSZA |-> 0]

\* CryptorAEAD::nonce_type running_nonce {nonce_}: a copy of the saved nonce
running_nonce_seed(self) == self.nonce_

\* a loop body that leaves the running nonce as it is
running_nonce_kept(n) == n

\* running_nonce.increment() after a full chunk
running_nonce_step(n) == increment(n)

\* a running nonce that is the saved nonce itself, not a copy of it
saved_nonce_aliased(self, running_nonce) == running_nonce

\* the saved nonce_ while a call runs: running_nonce is a copy constructed
\* from it, so incrementing the copy leaves nonce_ as it was
saved_nonce(self, running_nonce) == self.nonce_

\* locals that all calls share: the running nonce of a call is the one the
\* call that ran last has left
bystander_shares_nonce(mine, theirs) ==
  [mine EXCEPT !.running_nonce = theirs.running_nonce]

\* the locals of a call (hash state, buffer, running nonce: automatic
\* variables) after a step of another call, whose locals are theirs
Bystander(mine, theirs) == mine

\* the instance as a call whose locals are c leaves it
Touched(self, c) == [self EXCEPT !.nonce_ = saved_nonce(self, c.running_nonce)]

\* a trailer of MACSIZE bytes whatever hashsize_ is
hash_size_of_mac(self) == MACSIZE

\* data_t hash(hashsize_, '\0'): the size of the trailer encrypt writes
hash_size(self) == self.hashsize_

\* a final chunk that is written but not hashed
hash_final_chunk_missed(state, ciphertext) == state

\* update the hash with the final partial block
hash_final_chunk(state, ciphertext) == generichash_update(state, ciphertext)

\* a write whose failure goes unnoticed
write_failure_ignored(ostr) == FALSE

\* if (!ostr) throw, after each ostr.write of encrypt
write_failed(ostr) == ostr.fail

\* a final step that seals whatever the buffer holds
final_chunk_always(s) == TRUE

\* if (s != 0): a final partial chunk was read
final_chunk_read(s) == s # 0

\* a final chunk sealed with the whole buffer, stale bytes included
final_chunk_unsized(plaintext, s) == plaintext

\* plaintext.resize(s): the final chunk holds the s bytes that were read
final_chunk_sized(plaintext, s) == Resize(plaintext, s)

\* entry of encrypt: the hash state, the plaintext buffer and the running
\* nonce are locals of the call.  sealed logs every sc_aead_.encrypt call.
EncryptBegin(self, input, room) ==
  [pc |-> "loop", error |-> "",
   istr |-> NewStream(input), ostr |-> NewSink(room),
   state |-> generichash_init,
   plaintext |-> Zeros(self.blocksize_),
   running_nonce |-> running_nonce_seed(self),
   sealed |-> << >>]

\* one evaluation of the while condition and, when the read gave a full
\* block, one pass through the loop body
EncryptLoop(self, c) ==
  LET rd  == stream_read(c.istr, self.blocksize_)
      buf == Overwrite(c.plaintext, stream_got(rd))
  IN  IF rd.fail
      THEN [c EXCEPT !.istr = rd, !.plaintext = buf, !.pc = "final"]
      ELSE LET ciphertext == aead_encrypt(self.header_, buf, self.key_, c.running_nonce)
               wr == stream_write(c.ostr, ciphertext)
               log == Append(c.sealed, [nonce |-> c.running_nonce, size |-> Len(buf),
                                        bytes |-> buf])
           IN  IF write_failed(wr)
               THEN [c EXCEPT !.istr = rd, !.plaintext = buf, !.ostr = wr,
                              !.running_nonce = running_nonce_step(c.running_nonce),
                              !.sealed = log,
                              !.pc = "thrown", !.error = "IOFailure"]
               ELSE [c EXCEPT !.istr = rd, !.plaintext = buf, !.ostr = wr,
                              !.running_nonce = running_nonce_step(c.running_nonce),
                              !.sealed = log,
                              !.state = generichash_update(c.state, ciphertext)]

\* after the loop: the final partial chunk, if any, then the hash
EncryptFinal(self, c) ==
  LET s == c.istr.gcount
      final == final_chunk_read(s)
      buf == IF final /\ s # Len(c.plaintext) THEN final_chunk_sized(c.plaintext, s)
             ELSE c.plaintext
      ciphertext == aead_encrypt(self.header_, buf, self.key_, c.running_nonce)
      wr1 == IF final THEN stream_write(c.ostr, ciphertext) ELSE c.ostr
      st1 == IF final THEN hash_final_chunk(c.state, ciphertext) ELSE c.state
      log == IF final
             THEN Append(c.sealed, [nonce |-> c.running_nonce, size |-> Len(buf),
                                    bytes |-> buf])
             ELSE c.sealed
      hash == generichash_final(st1, self.hashkey_, hash_size(self))
      wr2 == stream_write(wr1, hash)
  IN  IF write_failed(wr1)
      THEN [c EXCEPT !.plaintext = buf, !.ostr = wr1, !.sealed = log,
                     !.pc = "thrown", !.error = "IOFailure"]
      ELSE IF write_failed(wr2)
      THEN [c EXCEPT !.plaintext = buf, !.ostr = wr2, !.sealed = log, !.state = st1,
                     !.pc = "thrown", !.error = "IOFailure"]
      ELSE [c EXCEPT !.plaintext = buf, !.ostr = wr2, !.sealed = log, !.state = st1,
                     !.pc = "returned"]

\* encrypt run to its end
RECURSIVE EncryptRun(_, _)
EncryptRun(self, c) ==
  IF c.pc = "loop" THEN EncryptRun(self, EncryptLoop(self, c))
  ELSE IF c.pc = "final" THEN EncryptFinal(self, c)
  ELSE c

\* the sink encrypt was given, from what is left of it: the room it had
RoomGiven(o) == IF o.room < 0 THEN o.room ELSE o.room + Len(o.data)

\* ------------------------------------------------------------------------
\* crypto_sign multi-part API (symbolic), StreamSignorPK, StreamVerifierPK
\* ------------------------------------------------------------------------

\* the key pairs (KeyPairSign): each has a private and a public key
KeyPairs == {"alice", "bob"}

privkey(pair) == [pair |-> pair, part |-> "privkey"]

pubkey(pair) == [pair |-> pair, part |-> "pubkey"]

\* a key of the pair and part of key that is size bytes long
SizedKey(key, size) == [pair |-> key.pair, part |-> key.part, size |-> size]

\* crypto_sign_init: nothing fed yet
sign_init == << >>

\* crypto_sign_update: the state is everything fed so far, however it was
\* cut into blocks
sign_update(state, bytes) == state \o bytes

\* crypto_sign_final_create: SIGNATURE_SIZE bytes that together determine
\* the key pair and the whole message (no forgery): byte j is a term over
\* the pair and the j-th slice of the message
sign_final_create(state, key) ==
  [j \in 1..SIGNATURE_SIZE |->
     [sk |-> key.pair, sd |-> Slice(state, j, SIGNATURE_SIZE), si |-> j]]

\* a verification that accepts the signature of any key pair
sign_final_verify_any_key(state, signature, key) ==
  \E pair \in KeyPairs : signature = sign_final_create(state, privkey(pair))

\* crypto_sign_final_verify: the signature is the one the private key of
\* the pair of this public key makes for the message fed
sign_final_verify(state, signature, key) ==
  signature = sign_final_create(state, privkey(key.pair))

\* a call that leaves state_ as the message has made it
state_kept(state) == state

\* the internal state_ is reset after the call returns
state_reset(state) == sign_init

\* a final partial block that is read but not fed
final_block_missed(state, block) == state

\* the final partial block is fed like the full ones
final_block_fed(state, block) == sign_update(state, block)

\* StreamSignorPK::StreamSignorPK: the fields after construction
StreamSignorPK(key, blocksize) ==
  [privkey_ |-> key, state_ |-> sign_init, blocksize_ |-> blocksize]

\* StreamVerifierPK::StreamVerifierPK: throws for a public key that is not
\* KEYSIZE_PUBKEY bytes long, then for a blocksize below 1; else the fields
\* after construction
StreamVerifierPK(key, blocksize) ==
  IF key.size # KEYSIZE_PUBKEY
  THEN [error |-> "Sodium::StreamVerifierPK() wrong key size"]
  ELSE IF blocksize < 1
  THEN [error |-> "Sodium::StreamVerifierPK() wrong blocksize"]
  ELSE [error |-> "",
        self |-> [pubkey_ |-> key, state_ |-> sign_init, blocksize_ |-> blocksize]]

\* entry of StreamSignorPK::sign
SignBegin(self, message) ==
  [pc |-> "loop", istr |-> NewStream(message),
   plaintext |-> Zeros(self.blocksize_), signature |-> << >>]

\* one read of sign and, when it gave a full block, the update with it
SignLoop(self, c) ==
  LET rd  == stream_read(c.istr, self.blocksize_)
      buf == Overwrite(c.plaintext, stream_got(rd))
  IN  IF rd.fail
      THEN [self |-> self,
            c |-> [c EXCEPT !.istr = rd, !.plaintext = buf, !.pc = "final"]]
      ELSE [self |-> [self EXCEPT !.state_ = sign_update(self.state_, buf)],
            c |-> [c EXCEPT !.istr = rd, !.plaintext = buf]]

\* after the loop of sign: the final partial block, then the signature
SignFinal(self, c) ==
  LET s   == c.istr.gcount
      buf == IF s # 0 THEN Resize(c.plaintext, s) ELSE c.plaintext
      fed == IF s # 0 THEN sign_update(self.state_, buf) ELSE self.state_
  IN  [self |-> [self EXCEPT !.state_ = sign_init],
       c |-> [c EXCEPT !.plaintext = buf, !.pc = "returned",
                       !.signature = sign_final_create(fed, self.privkey_)]]

\* entry of StreamVerifierPK::verify
VerifyBegin(self, message, signature) ==
  [pc |-> "loop", istr |-> NewStream(message),
   plaintext |-> Zeros(self.blocksize_), signature |-> signature, result |-> FALSE]

\* one read of verify and, when it gave a full block, the update with it
VerifyLoop(self, c) ==
  LET rd  == stream_read(c.istr, self.blocksize_)
      buf == Overwrite(c.plaintext, stream_got(rd))
  IN  IF rd.fail
      THEN [self |-> self,
            c |-> [c EXCEPT !.istr = rd, !.plaintext = buf, !.pc = "final"]]
      ELSE [self |-> [self EXCEPT !.state_ = sign_update(self.state_, buf)],
            c |-> [c EXCEPT !.istr = rd, !.plaintext = buf]]

\* after the loop of verify: the final partial block, then true or false
VerifyFinal(self, c) ==
  LET s   == c.istr.gcount
      buf == IF s # 0 THEN Resize(c.plaintext, s) ELSE c.plaintext
      fed == IF s # 0 THEN final_block_fed(self.state_, buf) ELSE self.state_
  IN  [self |-> [self EXCEPT !.state_ = state_reset(fed)],
       c |-> [c EXCEPT !.plaintext = buf, !.pc = "returned",
                       !.result = sign_final_verify(fed, c.signature, self.pubkey_)]]

\* verify run to its end
RECURSIVE VerifyRun(_, _)
VerifyRun(self, c) ==
  IF c.pc = "loop"
  THEN LET n == VerifyLoop(self, c) IN VerifyRun(n.self, n.c)
  ELSE IF c.pc = "final" THEN VerifyFinal(self, c)
  ELSE [self |-> self, c |-> c]

\* ------------------------------------------------------------------------
\* FileCryptor::decrypt
\* ------------------------------------------------------------------------

\* a seek that stops at the start of a file shorter than the offset
seek_from_end_clamped(s, back) ==
  [s EXCEPT !.pos = IF Len(s.data) < back THEN 0 ELSE Len(s.data) - back]

\* istream::seekg(off, end) followed by what the seek leaves: a seek before
\* the start of the file fails
seek_from_end(s, back) ==
  IF Len(s.data) < back THEN [s EXCEPT !.fail = TRUE]
  ELSE [s EXCEPT !.pos = Len(s.data) - back]

\* istream::seekg(0, beg): clears eofbit, does nothing on a failed stream
seek_to_start(s) == IF s.fail THEN s ELSE [s EXCEPT !.pos = 0]

\* a decrypt that starts from a fixed nonce, not from the saved one
restart_nonce_fixed(self) == NonceCarry

\* CryptorAEAD::nonce_type running_nonce {nonce_}: restart with saved nonce_
restart_nonce(self) == self.nonce_

\* a decrypt that goes on after a chunk failed to verify
chunk_failure_ignored(res) == FALSE

\* sc_aead_.decrypt throws when the chunk does not verify
chunk_rejected(res) == ~res.ok

\* a final step that never opens what is left of the last read
final_chunk_skipped(block) == FALSE

\* if (! ciphertext.empty()): there is still something to decrypt
final_chunk_left(block) == block # << >>

\* a decrypt that accepts whatever hash it computed
hash_mismatch_never(hash, hash_saved) == FALSE

\* if (hash != hash_saved)
hash_mismatch(hash, hash_saved) == hash # hash_saved

\* a loop that opens the block as it was read, hash bytes included
trim_nothing(buf, pos, hash_pos) == buf

\* ciphertext.resize(ciphertext.size() - (current_pos - hash_pos)): the part
\* of the block that lies before the saved hash
trim_to_hash(buf, pos, hash_pos) == Resize(buf, Len(buf) - (pos - hash_pos))

\* a decrypt loop that opens every chunk under the same nonce
opened_nonce_kept(n) == n

\* running_nonce.increment() after a chunk was opened in the loop
opened_nonce_step(n) == increment(n)

\* entry of decrypt: seek to the saved hash, read it, seek back.  opened
\* logs every sc_aead_.decrypt call.
DecryptBegin(self, file, room) ==
  LET sk == seek_from_end(NewStream(file), self.hashsize_)
      rd == stream_read(sk, self.hashsize_)
      partial == rd.fail /\ rd.gcount # 0 /\ rd.gcount # self.hashsize_
      c0 == [pc |-> "loop", error |-> "",
             ifs |-> sk, ostr |-> NewSink(room),
             state |-> generichash_init,
             ciphertext |-> Blank(MACSIZE + self.blocksize_),
             running_nonce |-> restart_nonce(self),
             hash_saved |-> Blank(self.hashsize_),
             hash_pos |-> 0, current_pos |-> 0, in_hash |-> FALSE,
             overrun |-> FALSE,
             opened |-> << >>]
  IN  IF sk.fail
      THEN [c0 EXCEPT !.pc = "thrown", !.error = "IOFailure"]
      ELSE IF partial
      THEN [c0 EXCEPT !.ifs = rd, !.hash_pos = tellg(sk),
                      !.hash_saved = Overwrite(c0.hash_saved, stream_got(rd)),
                      !.pc = "thrown", !.error = "IOFailure"]
      ELSE [c0 EXCEPT !.ifs = seek_to_start(rd), !.hash_pos = tellg(sk),
                      !.hash_saved = Overwrite(c0.hash_saved, stream_got(rd)),
                      !.current_pos = tellg(seek_to_start(rd))]

\* one evaluation of the while condition (the read comes first, then
\* !in_hash) and, when it holds, one pass through the loop body
DecryptLoop(self, c) ==
  LET want == MACSIZE + self.blocksize_
      rd   == stream_read(c.ifs, want)
      over == c.overrun \/ want > Len(c.ciphertext)
      buf  == Overwrite(c.ciphertext, stream_got(rd))
  IN  IF rd.fail \/ c.in_hash
      THEN [c EXCEPT !.ifs = rd, !.ciphertext = buf, !.overrun = over, !.pc = "final"]
      ELSE LET pos == tellg(rd)
               cross == pos > c.hash_pos
               block == IF cross THEN trim_to_hash(buf, pos, c.hash_pos) ELSE buf
               res == aead_decrypt(self.header_, block, self.key_, c.running_nonce)
               log == Append(c.opened, [nonce |-> c.running_nonce, size |-> Len(block),
                                        bytes |-> block, ok |-> res.ok])
               wr == stream_write(c.ostr, res.plaintext)
               c1 == [c EXCEPT !.ifs = rd, !.ciphertext = block, !.overrun = over,
                               !.current_pos = pos,
                               !.in_hash = cross, !.opened = log]
           IN  IF chunk_rejected(res)
               THEN [c1 EXCEPT !.pc = "thrown", !.error = "AuthFailure"]
               ELSE IF wr.fail
               THEN [c1 EXCEPT !.running_nonce = opened_nonce_step(c.running_nonce),
                               !.ostr = wr, !.pc = "thrown", !.error = "IOFailure"]
               ELSE [c1 EXCEPT !.running_nonce = opened_nonce_step(c.running_nonce),
                               !.ostr = wr,
                               !.state = generichash_update(c.state, block)]

\* after the loop: the final partial chunk with the hash trimmed off it,
\* then the comparison of the two hashes
DecryptFinal(self, c) ==
  LET s    == c.ifs.gcount
      look == ~c.in_hash /\ s # 0
      buf1 == IF look /\ s # Len(c.ciphertext) THEN Resize(c.ciphertext, s) ELSE c.ciphertext
      pos  == IF look THEN tellg(c.ifs) ELSE c.current_pos
      block == IF ~look THEN buf1
               ELSE IF pos > c.hash_pos THEN Resize(buf1, Len(buf1) - (pos - c.hash_pos))
               ELSE IF pos = -1
                    THEN IF Len(buf1) > self.hashsize_
                         THEN Resize(buf1, Len(buf1) - self.hashsize_)
                         ELSE << >>
                    ELSE buf1
      open == look /\ final_chunk_left(block)
      res  == aead_decrypt(self.header_, block, self.key_, c.running_nonce)
      log  == IF open
              THEN Append(c.opened, [nonce |-> c.running_nonce, size |-> Len(block),
                                     bytes |-> block, ok |-> res.ok])
              ELSE c.opened
      wr   == IF open THEN stream_write(c.ostr, res.plaintext) ELSE c.ostr
      st1  == IF open THEN generichash_update(c.state, block) ELSE c.state
      hash == generichash_final(st1, self.hashkey_, self.hashsize_)
      c1   == [c EXCEPT !.ciphertext = block, !.current_pos = pos, !.opened = log]
  IN  IF open /\ chunk_rejected(res)
      THEN [c1 EXCEPT !.pc = "thrown", !.error = "AuthFailure"]
      ELSE IF open /\ wr.fail
      THEN [c1 EXCEPT !.ostr = wr, !.pc = "thrown", !.error = "IOFailure"]
      ELSE IF hash_mismatch(hash, c.hash_saved)
      THEN [c1 EXCEPT !.ostr = wr, !.state = st1,
                      !.pc = "thrown", !.error = "IntegrityFailure"]
      ELSE [c1 EXCEPT !.ostr = wr, !.state = st1, !.pc = "returned"]

\* decrypt run to its end
RECURSIVE DecryptRun(_, _)
DecryptRun(self, c) ==
  IF c.pc = "loop" THEN DecryptRun(self, DecryptLoop(self, c))
  ELSE IF c.pc = "final" THEN DecryptFinal(self, c)
  ELSE c

\* ------------------------------------------------------------------------
\* The state machine: one stream is encrypted, carried to the decrypting
\* side (untouched, or altered as the scenario says) and decrypted
\* ------------------------------------------------------------------------

VARIABLES
  scenario,   \* what may happen to the stream between encrypt and decrypt
  enc,        \* the FileCryptor instance that encrypts
  ecall,      \* the locals of its encrypt call
  stage,      \* "encrypt", "delivered" or "decrypt"
  attack,     \* what did happen to the stream
  file,       \* the file handed to decrypt
  dec,        \* the FileCryptor instance that decrypts
  dcall,      \* the locals of its decrypt call
  built,      \* the instance as its constructor made it
  history,    \* the outcomes of the calls the instance has behind it
  aead,       \* one CryptorAEAD::encrypt call and the decrypt call after it;
              \* or an Auth::auth call and the Auth::verify call after it
  conc,       \* two instances and the calls that run on them at the same time
  sign        \* a stream signor, a stream verifier and their calls; or a
              \* SignorPK::sign call and the SignorPK::verify call after it

\* the state of the stream cipher and of what it reads and writes
streamVars == <<scenario, enc, ecall, stage, attack, file, dec, dcall, built, history>>

\* the state of everything else
others == <<aead, conc, sign>>

vars == <<streamVars, others>>

\* nothing but the stream cipher is in use
OthersIdle ==
  /\ aead = [pc |-> "idle"]
  /\ conc = [pc |-> "idle"]
  /\ sign = [pc |-> "idle"]

IdleCall == [pc |-> "idle", error |-> ""]

NoAttack == [kind |-> "none"]

\* a byte that no primitive produced
Junk == [junk |-> 0]

\* the length of the chunk area of an encrypted stream
ChunkArea(stream, self) == Len(stream) - self.hashsize_

\* where the last chunk of an encrypted stream starts (0-based), from the
\* sizes of the blocks that were sealed
RECURSIVE SumSizes(_, _)
SumSizes(log, n) == IF n = 0 THEN 0 ELSE SumSizes(log, n - 1) + MACSIZE + log[n].size

LastChunkStart(log) == SumSizes(log, Len(log) - 1)

\* the stream with the byte at position i replaced
Altered(stream, i, b) == [stream EXCEPT ![i] = b]

\* the stream without its bytes (from, to]
Without(stream, from, to) == SubSeq(stream, 1, from) \o SubSeq(stream, to + 1, Len(stream))

\* the i-th chunk (MAC and ciphertext) of an encrypted stream
Chunk(stream, log, i) == SubSeq(stream, SumSizes(log, i - 1) + 1, SumSizes(log, i))

\* the chunks of an encrypted stream in the given order
RECURSIVE Arrange(_, _, _)
Arrange(stream, log, order) ==
  IF order = << >> THEN << >>
  ELSE Chunk(stream, log, Head(order)) \o Arrange(stream, log, Tail(order))

\* the ways to drop, duplicate and reorder n chunks: every sequence of at
\* most n + 1 chunk numbers but the one that leaves the chunks as they are
Orders(n) == SeqsUpTo(1..n, n + 1) \ {[i \in 1..n |-> i]}

\* the sinks a further encrypt call may be given: one that takes everything,
\* one that fails within the first chunk, one that fails after it
Rooms == {-1, MACSIZE, 2 * MACSIZE + 1}

\* what the scenario allows to happen to the stream ecall wrote
Attacks ==
  LET stream == ecall.ostr.data
      area   == ChunkArea(stream, enc)
  IN  CASE scenario = "none" -> {NoAttack}
        [] scenario = "tamper" ->
             UNION {{[kind |-> "tamper", at |-> i, byte |-> b] :
                       b \in {Junk, stream[(i % Len(stream)) + 1]} \ {stream[i]}} :
                    i \in 1..area}
        [] scenario = "truncate" ->
             IF ecall.sealed = << >> THEN {}
             ELSE {[kind |-> "truncate", from |-> LastChunkStart(ecall.sealed), to |-> area]}
        [] scenario = "wrongkey" ->
             {[kind |-> "wrongkey", key |-> k] : k \in AeadKeys \ {enc.key_}}
        [] scenario = "wrongnonce" ->
             {[kind |-> "wrongnonce", nonce |-> n] : n \in BaseNonces \ {enc.nonce_}}
        [] scenario = "wrongblock" ->
             {[kind |-> "wrongblock", blocksize |-> b] : b \in BlockSizes \ {enc.blocksize_}}
        [] scenario = "trailer" ->
             UNION {{[kind |-> "trailer", at |-> i, byte |-> b] :
                       b \in {Junk, stream[(i % Len(stream)) + 1]} \ {stream[i]}} :
                    i \in (area + 1)..Len(stream)}
        [] scenario = "rearrange" ->
             {[kind |-> "rearrange", order |-> o] : o \in Orders(Len(ecall.sealed))}
        [] scenario = "cut" ->
             {[kind |-> "cut", keep |-> n] : n \in 0..(Len(stream) - 1)}
        [] scenario = "reuse" ->
             {NoAttack} \cup
             (IF area = 0 THEN {} ELSE {[kind |-> "tamper", at |-> 1, byte |-> Junk]})

\* the file the decrypting side gets
Delivered(a, stream) ==
  CASE a.kind = "tamper" -> Altered(stream, a.at, a.byte)
    [] a.kind = "truncate" -> Without(stream, a.from, a.to)
    [] a.kind = "trailer" -> Altered(stream, a.at, a.byte)
    [] a.kind = "rearrange" ->
         Arrange(stream, ecall.sealed, a.order)
           \o SubSeq(stream, ChunkArea(stream, enc) + 1, Len(stream))
    [] a.kind = "cut" -> SubSeq(stream, 1, a.keep)
    [] OTHER -> stream

\* the instance the decrypting side uses
Receiver(a, self) ==
  CASE a.kind = "wrongkey" -> [self EXCEPT !.key_ = a.key]
    [] a.kind = "wrongnonce" -> [self EXCEPT !.nonce_ = a.nonce]
    [] a.kind = "wrongblock" -> [self EXCEPT !.blocksize_ = a.blocksize]
    [] OTHER -> self

InitFor(scenarios, keys, nonces, every) ==
  /\ scenario \in scenarios
  /\ enc \in {FileCryptor(k, n, b, HashKey, h) :
                k \in keys, n \in nonces, b \in BlockSizes, h \in HashSizes}
  /\ ecall \in {EncryptBegin(enc, p, -1) : p \in Inputs(enc.blocksize_, every)}
  /\ stage = "encrypt"
  /\ attack = NoAttack
  /\ file = << >>
  /\ dec = enc
  /\ dcall = IdleCall
  /\ built = enc
  /\ history = << >>
  /\ OthersIdle

EncryptStep ==
  /\ stage = "encrypt"
  /\ ecall.pc = "loop"
  /\ ecall' = EncryptLoop(enc, ecall)
  /\ enc' = Touched(enc, ecall')
  /\ UNCHANGED <<scenario, stage, attack, file, dec, dcall, built, history>>
  /\ UNCHANGED others

EncryptFinish ==
  /\ stage = "encrypt"
  /\ ecall.pc = "final"
  /\ ecall' = EncryptFinal(enc, ecall)
  /\ enc' = Touched(enc, ecall')
  /\ UNCHANGED <<scenario, stage, attack, file, dec, dcall, built, history>>
  /\ UNCHANGED others

Deliver ==
  /\ stage = "encrypt"
  /\ ecall.pc = "returned"
  /\ \E a \in Attacks :
        /\ attack' = a
        /\ file' = Delivered(a, ecall.ostr.data)
        /\ dec' = Receiver(a, enc)
  /\ stage' = "delivered"
  /\ UNCHANGED <<scenario, enc, ecall, dcall, built, history>>
  /\ UNCHANGED others

DecryptStart ==
  /\ stage = "delivered"
  /\ dcall' = DecryptBegin(dec, file, -1)
  /\ stage' = "decrypt"
  /\ UNCHANGED <<scenario, enc, ecall, attack, file, dec, built, history>>
  /\ UNCHANGED others

DecryptStep ==
  /\ stage = "decrypt"
  /\ dcall.pc = "loop"
  /\ dcall' = DecryptLoop(dec, dcall)
  /\ dec' = Touched(dec, dcall')
  /\ UNCHANGED <<scenario, enc, ecall, stage, attack, file, built, history>>
  /\ UNCHANGED others

DecryptFinish ==
  /\ stage = "decrypt"
  /\ dcall.pc = "final"
  /\ dcall' = DecryptFinal(dec, dcall)
  /\ dec' = Touched(dec, dcall')
  /\ UNCHANGED <<scenario, enc, ecall, stage, attack, file, built, history>>
  /\ UNCHANGED others

\* how a call ended
Outcome(c) == IF c.pc = "thrown" THEN c.error ELSE c.pc

\* the instance is used again: after an encrypt call that threw, or after
\* the decrypt call that followed one that returned, encrypt is called on
\* the same instance with another input and another sink
NextCall ==
  /\ scenario = "reuse"
  /\ Len(history) <= MaxCalls
  /\ \/ stage = "encrypt" /\ ecall.pc = "thrown"
     \/ stage = "decrypt" /\ dcall.pc \in {"returned", "thrown"}
  /\ history' = history
                  \o << [op |-> "encrypt", outcome |-> Outcome(ecall)] >>
                  \o (IF stage = "decrypt"
                      THEN << [op |-> "decrypt", outcome |-> Outcome(dcall)] >>
                      ELSE << >>)
  /\ enc' = (IF stage = "decrypt" THEN dec ELSE enc)
  /\ dec' = enc'
  /\ \E p \in Inputs(enc.blocksize_, FALSE), room \in Rooms :
        ecall' = EncryptBegin(enc', p, room)
  /\ stage' = "encrypt"
  /\ attack' = NoAttack
  /\ file' = << >>
  /\ dcall' = IdleCall
  /\ UNCHANGED <<scenario, built>>
  /\ UNCHANGED others

Next ==
  \/ EncryptStep
  \/ EncryptFinish
  \/ Deliver
  \/ DecryptStart
  \/ DecryptStep
  \/ DecryptFinish

Init == InitFor({"none"}, AeadKeys, BaseNonces, TRUE)

\* the stream reaches the decrypting side untouched
Spec == Init /\ [][Next]_vars

InitTamper == InitFor({"tamper"}, {"K1"}, {NonceCarry}, FALSE)

\* one byte of one chunk is altered on the way
SpecTamper == InitTamper /\ [][Next]_vars

InitTruncate == InitFor({"truncate"}, {"K1"}, BaseNonces, TRUE)

\* the last chunk is removed on the way, the trailer kept
SpecTruncate == InitTruncate /\ [][Next]_vars

InitWrongKey == InitFor({"wrongkey"}, AeadKeys, {NonceCarry}, TRUE)

\* the decrypting instance holds another AEAD key
SpecWrongKey == InitWrongKey /\ [][Next]_vars

InitWrongNonce == InitFor({"wrongnonce"}, {"K1"}, BaseNonces, TRUE)

\* the decrypting instance holds another base nonce
SpecWrongNonce == InitWrongNonce /\ [][Next]_vars

InitWrongBlock == InitFor({"wrongblock"}, {"K1"}, {NonceCarry}, TRUE)

\* the decrypting instance holds another blocksize
SpecWrongBlock == InitWrongBlock /\ [][Next]_vars

InitTrailer == InitFor({"trailer"}, {"K1"}, {NonceCarry}, FALSE)

\* one byte of the trailer is altered on the way
SpecTrailer == InitTrailer /\ [][Next]_vars

InitRearrange == InitFor({"rearrange"}, {"K1"}, {NonceCarry}, FALSE)

\* whole chunks are dropped, duplicated or reordered on the way
SpecRearrange == InitRearrange /\ [][Next]_vars

InitCut == InitFor({"cut"}, {"K1"}, {NonceCarry}, FALSE)

\* only the first bytes of the stream arrive
SpecCut == InitCut /\ [][Next]_vars

\* all but the encrypt call of an initial state
InitRest ==
  /\ enc \in {FileCryptor("K1", NonceCarry, b, HashKey, h) :
                b \in BlockSizes, h \in HashSizes}
  /\ stage = "encrypt"
  /\ attack = NoAttack
  /\ file = << >>
  /\ dec = enc
  /\ dcall = IdleCall
  /\ built = enc
  /\ history = << >>
  /\ OthersIdle

\* the stream encrypt writes for an input when nothing fails
WholeStream(self, input) == EncryptRun(self, EncryptBegin(self, input, -1)).ostr.data

\* the sinks encrypt is given: one that takes everything, and one for each
\* byte of the stream at which the sink can stop taking bytes
SinkRooms(self, input) == {-1} \cup (0..(Len(WholeStream(self, input)) - 1))

InitSink ==
  /\ scenario = "none"
  /\ InitRest
  /\ ecall \in UNION {{EncryptBegin(enc, p, room) : room \in SinkRooms(enc, p)} :
                        p \in Inputs(enc.blocksize_, FALSE)}

\* the sink of encrypt stops taking bytes somewhere
SpecSink == InitSink /\ [][Next]_vars

\* the sources encrypt is given: each breaks down after some of its bytes
\* (or before the first, or in place of the end of input)
FailingSources(input) ==
  {FailingStream(input, bad, counted) : bad \in 0..Len(input), counted \in BOOLEAN}

InitSource ==
  /\ scenario = "none"
  /\ InitRest
  /\ ecall \in UNION {{[EncryptBegin(enc, p, -1) EXCEPT !.istr = src] :
                           src \in FailingSources(p)} :
                        p \in Inputs(enc.blocksize_, FALSE)}

\* a read of the source of encrypt fails for a reason other than end of input
SpecSource == InitSource /\ [][Next]_vars

\* the blocksizes a constructor may be called with: a std::size_t
ConstructorBlockSizes == {0} \cup BlockSizes

\* the constructor is called with the arguments held in enc; when it
\* returns, encrypt is called on the instance
Construct ==
  /\ stage = "construct"
  /\ LET made == StreamCryptor(enc.key_, enc.nonce_, enc.blocksize_,
                               enc.hashkey_, enc.hashsize_)
     IN  IF made.error # ""
         THEN /\ stage' = "rejected"
              /\ history' = << [op |-> "construct", outcome |-> made.error] >>
              /\ UNCHANGED <<enc, dec, built, ecall>>
         ELSE /\ stage' = "encrypt"
              /\ enc' = made.self
              /\ dec' = made.self
              /\ built' = made.self
              /\ \E p \in Inputs(made.self.blocksize_, FALSE) :
                    ecall' = EncryptBegin(made.self, p, -1)
              /\ UNCHANGED history
  /\ UNCHANGED <<scenario, attack, file, dcall>>
  /\ UNCHANGED others

NextConstruct == Construct \/ Next

InitConstruct ==
  /\ scenario = "none"
  /\ enc \in {FileCryptor("K1", NonceCarry, b, HashKey, h) :
                b \in ConstructorBlockSizes, h \in HashSizes}
  /\ ecall = IdleCall
  /\ stage = "construct"
  /\ attack = NoAttack
  /\ file = << >>
  /\ dec = enc
  /\ dcall = IdleCall
  /\ built = enc
  /\ history = << >>
  /\ OthersIdle

\* an instance is constructed, with any blocksize, before it is used
SpecConstruct == InitConstruct /\ [][NextConstruct]_vars

\* the stream cipher is not in use
StreamIdle ==
  /\ scenario = "none"
  /\ enc = FileCryptor("K1", NonceCarry, 1, HashKey, MACSIZE)
  /\ ecall = IdleCall
  /\ stage = "idle"
  /\ attack = NoAttack
  /\ file = << >>
  /\ dec = enc
  /\ dcall = IdleCall
  /\ built = enc
  /\ history = << >>

\* a header longer than a MAC
BigHeader == [i \in 1..(2 * MACSIZE) |-> i % 2]

\* the plain headers: none, one byte, another byte, a long one
Headers == {<< >>, <<0>>, <<1>>, BigHeader}

\* what may reach decrypt in place of a ciphertext: the ciphertext, the
\* ciphertext with one byte altered (in the MAC or after it), and the
\* ciphertext cut short
Ciphertexts(c) ==
  {c}
    \cup UNION {{Altered(c, i, b) : b \in {Junk, c[(i % Len(c)) + 1]} \ {c[i]}} :
               i \in 1..Len(c)}
    \cup {SubSeq(c, 1, n) : n \in {0, MACSIZE - 1, Len(c) - 1}}

\* CryptorAEAD::encrypt on the arguments chosen
AeadEncrypt ==
  /\ aead.pc = "start"
  /\ aead' = [aead EXCEPT
                !.pc = "sealed",
                !.ciphertext = aead_encrypt(aead.header, aead.plaintext, aead.key, aead.nonce)]
  /\ UNCHANGED <<streamVars, conc, sign>>

\* the arguments decrypt is called with are chosen: each is the one used
\* to encrypt or another one
AeadHandOver ==
  /\ aead.pc = "sealed"
  /\ \E h \in Headers, k \in AeadKeys, n \in {NonceCarry, NonceNext},
        c \in Ciphertexts(aead.ciphertext) :
        aead' = [aead EXCEPT
                   !.pc = "sent",
                   !.given = [header |-> h, ciphertext |-> c, key |-> k, nonce |-> n]]
  /\ UNCHANGED <<streamVars, conc, sign>>

\* CryptorAEAD::decrypt on the arguments handed over
AeadDecrypt ==
  /\ aead.pc = "sent"
  /\ aead' = [aead EXCEPT
                !.pc = "opened",
                !.result = aead_decrypt(aead.given.header, aead.given.ciphertext,
                                        aead.given.key, aead.given.nonce)]
  /\ UNCHANGED <<streamVars, conc, sign>>

NextAead == AeadEncrypt \/ AeadHandOver \/ AeadDecrypt

InitAead ==
  /\ StreamIdle
  /\ conc = [pc |-> "idle"]
  /\ sign = [pc |-> "idle"]
  /\ aead \in {[pc |-> "start", header |-> h, plaintext |-> p, key |-> k,
                 nonce |-> NonceCarry, ciphertext |-> << >>,
                 given |-> [header |-> << >>, ciphertext |-> << >>,
                            key |-> k, nonce |-> NonceCarry],
                 result |-> [ok |-> FALSE, plaintext |-> << >>]] :
                h \in Headers, p \in Plaintexts, k \in AeadKeys}

\* one plaintext is encrypted in one piece and decrypted again
SpecAead == InitAead /\ [][NextAead]_vars

\* the two calls that run at the same time
Ops == {1, 2}

\* the instances they run on: constructed apart, from the same key
ConcInstances ==
  {FileCryptor("K1", NonceCarry, b, HashKey, MACSIZE) : b \in 1..MaxBlock}

\* the calls that can run on an instance: encrypt of a plaintext, decrypt
\* of a stream encrypt wrote or of one with its first byte altered
ConcCalls(self) ==
  {[kind |-> "encrypt", call |-> EncryptBegin(self, p, -1)] : p \in Samples}
    \cup {[kind |-> "decrypt", call |-> DecryptBegin(self, WholeStream(self, p), -1)] :
            p \in Samples}
    \cup {[kind |-> "decrypt",
           call |-> DecryptBegin(self, Altered(WholeStream(self, p), 1, Junk), -1)] :
            p \in Samples}

\* one step of the call of kind kind on self
CallStep(kind, self, c) ==
  CASE kind = "encrypt" /\ c.pc = "loop" -> EncryptLoop(self, c)
    [] kind = "encrypt" /\ c.pc = "final" -> EncryptFinal(self, c)
    [] kind = "decrypt" /\ c.pc = "loop" -> DecryptLoop(self, c)
    [] kind = "decrypt" /\ c.pc = "final" -> DecryptFinal(self, c)

\* the call run to its end with nothing else running
CallRun(kind, self, c) ==
  IF kind = "encrypt" THEN EncryptRun(self, c) ELSE DecryptRun(self, c)

\* call i takes a step while the other call is wherever it is
ConcTake(i) ==
  LET new == CallStep(conc.kind[i], conc.inst[i], conc.call[i])
  IN  conc' = [conc EXCEPT
                 !.call = [j \in Ops |-> IF j = i THEN new
                                         ELSE Bystander(conc.call[j], new)],
                 !.inst = [j \in Ops |-> IF j = i THEN Touched(conc.inst[i], new)
                                         ELSE conc.inst[j]],
                 !.last = i,
                 !.switches = IF conc.last \in {0, i} THEN conc.switches
                              ELSE conc.switches + 1]

ConcEncryptStep ==
  /\ conc.pc = "run"
  /\ \E i \in Ops :
        /\ conc.kind[i] = "encrypt"
        /\ conc.call[i].pc = "loop"
        /\ ConcTake(i)
  /\ UNCHANGED <<streamVars, aead, sign>>

ConcEncryptFinish ==
  /\ conc.pc = "run"
  /\ \E i \in Ops :
        /\ conc.kind[i] = "encrypt"
        /\ conc.call[i].pc = "final"
        /\ ConcTake(i)
  /\ UNCHANGED <<streamVars, aead, sign>>

ConcDecryptStep ==
  /\ conc.pc = "run"
  /\ \E i \in Ops :
        /\ conc.kind[i] = "decrypt"
        /\ conc.call[i].pc = "loop"
        /\ ConcTake(i)
  /\ UNCHANGED <<streamVars, aead, sign>>

ConcDecryptFinish ==
  /\ conc.pc = "run"
  /\ \E i \in Ops :
        /\ conc.kind[i] = "decrypt"
        /\ conc.call[i].pc = "final"
        /\ ConcTake(i)
  /\ UNCHANGED <<streamVars, aead, sign>>

NextConcurrent ==
  \/ ConcEncryptStep
  \/ ConcEncryptFinish
  \/ ConcDecryptStep
  \/ ConcDecryptFinish

InitConcurrent ==
  /\ StreamIdle
  /\ aead = [pc |-> "idle"]
  /\ sign = [pc |-> "idle"]
  /\ \E i1 \in ConcInstances, i2 \in ConcInstances :
        \E c1 \in ConcCalls(i1), c2 \in ConcCalls(i2) :
           conc = [pc |-> "run",
                   made |-> <<i1, i2>>,
                   inst |-> <<i1, i2>>,
                   kind |-> <<c1.kind, c2.kind>>,
                   begun |-> <<c1.call, c2.call>>,
                   call |-> <<c1.call, c2.call>>,
                   last |-> 0,
                   switches |-> 0]

\* two calls on two instances that share the key run at the same time,
\* their steps interleaved in every way
SpecConcurrent == InitConcurrent /\ [][NextConcurrent]_vars

InitLive ==
  /\ scenario \in {"none", "cut"}
  /\ enc \in {FileCryptor("K1", NonceCarry, b, HashKey, h) :
                b \in ConstructorBlockSizes, h \in HashSizes}
  /\ ecall = IdleCall
  /\ stage = "construct"
  /\ attack = NoAttack
  /\ file = << >>
  /\ dec = enc
  /\ dcall = IdleCall
  /\ built = enc
  /\ history = << >>
  /\ OthersIdle

\* a call under way keeps running: encrypt and decrypt are synchronous and
\* single-threaded, each pass of a loop and the part after it is followed by
\* the next statement.  When a call is made is up to the caller.  For the
\* two loops weak fairness is written out, WF_v(A) being
\* []<>~ENABLED <<A>>_v \/ []<><<A>>_v: a pass of a loop is enabled, and
\* changes the state, exactly while the call is in that loop.
CallsRun ==
  /\ []<>~(stage = "encrypt" /\ ecall.pc = "loop") \/ []<><<EncryptStep>>_vars
  /\ WF_vars(EncryptFinish)
  /\ []<>~(stage = "decrypt" /\ dcall.pc = "loop") \/ []<><<DecryptStep>>_vars
  /\ WF_vars(DecryptFinish)

\* an instance is constructed and used to encrypt a plaintext, and the
\* stream, or any number of its first bytes, is decrypted; calls that were
\* entered run on
SpecLive == InitLive /\ [][NextConstruct]_vars /\ CallsRun

\* the calls that can run on the one instance self: what is called, and the
\* source it is given
SharedCalls(self) ==
  {[kind |-> "encrypt", input |-> p] : p \in Samples}
    \cup {[kind |-> "decrypt", input |-> WholeStream(self, p)] : p \in Samples}
    \cup {[kind |-> "decrypt", input |-> Altered(WholeStream(self, p), 1, Junk)] :
            p \in Samples}

\* entry of the call of kind kind on self, with its own source and sink
CallBegin(kind, self, input) ==
  IF kind = "encrypt" THEN EncryptBegin(self, input, -1)
  ELSE DecryptBegin(self, input, -1)

\* the steps call i has taken so far: the chunks it has sealed or opened
StepsTaken(c) ==
  IF c.pc = "new" THEN 0
  ELSE IF "sealed" \in DOMAIN c THEN Len(c.sealed) ELSE Len(c.opened)

\* call i is entered on the instance as it is at that moment, while the
\* other call is wherever it is
SharedBegin ==
  /\ conc.pc = "shared"
  /\ \E i \in Ops :
        /\ conc.call[i].pc = "new"
        /\ conc' = [conc EXCEPT
                       !.call[i] = CallBegin(conc.kind[i], conc.inst, conc.input[i]),
                       !.after[i] = StepsTaken(conc.call[3 - i]),
                       !.last = i,
                       !.switches = IF conc.last \in {0, i} THEN conc.switches
                                    ELSE conc.switches + 1]
  /\ UNCHANGED <<streamVars, aead, sign>>

\* call i takes a step (a pass through its loop, or its final step) on the
\* instance both calls run on
SharedStep ==
  /\ conc.pc = "shared"
  /\ \E i \in Ops :
        /\ conc.call[i].pc \in {"loop", "final"}
        /\ LET new == CallStep(conc.kind[i], conc.inst, conc.call[i])
                j   == 3 - i
           IN  conc' = [conc EXCEPT
                          !.call[i] = new,
                          !.call[j] = IF conc.call[j].pc = "new" THEN conc.call[j]
                                      ELSE Bystander(conc.call[j], new),
                          !.inst = Touched(conc.inst, new),
                          !.last = i,
                          !.switches = IF conc.last \in {0, i} THEN conc.switches
                                       ELSE conc.switches + 1]
  /\ UNCHANGED <<streamVars, aead, sign>>

NextShared ==
  \/ SharedBegin
  \/ SharedStep

InitShared ==
  /\ StreamIdle
  /\ aead = [pc |-> "idle"]
  /\ sign = [pc |-> "idle"]
  /\ \E self \in ConcInstances :
        \E c1 \in SharedCalls(self), c2 \in SharedCalls(self) :
           conc = [pc |-> "shared",
                   made |-> self,
                   inst |-> self,
                   kind |-> <<c1.kind, c2.kind>>,
                   input |-> <<c1.input, c2.input>>,
                   call |-> <<[pc |-> "new"], [pc |-> "new"]>>,
                   after |-> <<0, 0>>,
                   last |-> 0,
                   switches |-> 0]

\* two calls on one instance, each with its own source and sink, entered at
\* any moment and their steps interleaved in every way
SpecShared == InitShared /\ [][NextShared]_vars

\* the messages that may reach verify in place of a message: the message,
\* the message with one byte altered, with its last byte missing, and with
\* one byte more
Messages(m) ==
  {m, Append(m, 0)}
    \cup {[m EXCEPT ![i] = 1 - m[i]] : i \in 1..Len(m)}
    \cup (IF m = << >> THEN {} ELSE {SubSeq(m, 1, Len(m) - 1)})

\* the positions at which a signature is altered: its first byte, one in
\* the middle, its last byte
SignaturePositions == {1, SIGNATURE_SIZE \div 2, SIGNATURE_SIZE}

\* the signatures that may reach verify in place of a signature
Signatures(sg) ==
  {sg} \cup UNION {{Altered(sg, i, b) : b \in {Junk, sg[(i % Len(sg)) + 1]}} :
                   i \in SignaturePositions}

SignStep ==
  /\ sign.pc = "run"
  /\ sign.scall.pc = "loop"
  /\ LET n == SignLoop(sign.signor, sign.scall)
     IN  sign' = [sign EXCEPT !.signor = n.self, !.scall = n.c]
  /\ UNCHANGED <<streamVars, aead, conc>>

SignFinish ==
  /\ sign.pc = "run"
  /\ sign.scall.pc = "final"
  /\ LET n == SignFinal(sign.signor, sign.scall)
     IN  sign' = [sign EXCEPT !.signor = n.self, !.scall = n.c]
  /\ UNCHANGED <<streamVars, aead, conc>>

\* verify is called on the verifier, for the first time or once more after
\* an earlier call has returned, with a message and a signature that are
\* the signed ones or not
Present ==
  /\ sign.pc = "run"
  /\ sign.scall.pc = "returned"
  /\ \/ sign.vcall.pc = "idle"
     \/ sign.vcall.pc = "returned" /\ Len(sign.results) < MaxCalls
  /\ \E m \in Messages(sign.message), sg \in Signatures(sign.scall.signature) :
        sign' = [sign EXCEPT
                   !.vcall = VerifyBegin(sign.verifier, m, sg),
                   !.results = IF sign.vcall.pc = "returned"
                               THEN Append(sign.results, sign.vcall.result)
                               ELSE sign.results]
  /\ UNCHANGED <<streamVars, aead, conc>>

VerifyStep ==
  /\ sign.pc = "run"
  /\ sign.vcall.pc = "loop"
  /\ LET n == VerifyLoop(sign.verifier, sign.vcall)
     IN  sign' = [sign EXCEPT !.verifier = n.self, !.vcall = n.c]
  /\ UNCHANGED <<streamVars, aead, conc>>

VerifyFinish ==
  /\ sign.pc = "run"
  /\ sign.vcall.pc = "final"
  /\ LET n == VerifyFinal(sign.verifier, sign.vcall)
     IN  sign' = [sign EXCEPT !.verifier = n.self, !.vcall = n.c]
  /\ UNCHANGED <<streamVars, aead, conc>>

NextSign ==
  \/ SignStep
  \/ SignFinish
  \/ Present
  \/ VerifyStep
  \/ VerifyFinish

InitSign ==
  /\ StreamIdle
  /\ aead = [pc |-> "idle"]
  /\ conc = [pc |-> "idle"]
  /\ \E m \in Samples, ps \in KeyPairs, pv \in KeyPairs,
        bs \in 1..MaxBlock, bv \in 1..MaxBlock :
        LET signor   == StreamSignorPK(privkey(ps), bs)
            verifier == StreamVerifierPK(SizedKey(pubkey(pv), KEYSIZE_PUBKEY), bv).self
        IN  sign = [pc |-> "run",
                    message |-> m,
                    signor |-> signor,
                    scall |-> SignBegin(signor, m),
                    made |-> verifier,
                    verifier |-> verifier,
                    vcall |-> IdleCall,
                    results |-> << >>]

\* a message is signed blockwise, then verify is called on one verifier
\* again and again
SpecSign == InitSign /\ [][NextSign]_vars

\* plaintexts of up to MaxInput bytes: long enough for two full chunks and a
\* partial one at every blocksize up to MaxBlock + 1
InitPartition ==
  /\ scenario = "none"
  /\ enc \in {FileCryptor("K1", NonceCarry, b, HashKey, h) :
                b \in 1..(MaxBlock + 1), h \in HashSizes}
  /\ ecall \in {EncryptBegin(enc, Sample(n), -1) : n \in 0..MaxInput}
  /\ stage = "encrypt"
  /\ attack = NoAttack
  /\ file = << >>
  /\ dec = enc
  /\ dcall = IdleCall
  /\ built = enc
  /\ history = << >>
  /\ OthersIdle

\* longer plaintexts, encrypted and decrypted
SpecPartition == InitPartition /\ [][Next]_vars

\* crypto_sign (combined mode): the signature, then the message
crypto_sign(plaintext, key) == sign_final_create(plaintext, key) \o plaintext

\* crypto_sign_open: -1 unless the input is a signature followed by the
\* message the private key of this public key's pair made it for
crypto_sign_open(signed, key) ==
  IF Len(signed) < SIGNATURE_SIZE
  THEN [rc |-> -1, plaintext |-> << >>]
  ELSE LET signature == SubSeq(signed, 1, SIGNATURE_SIZE)
           plaintext == SubSeq(signed, SIGNATURE_SIZE + 1, Len(signed))
       IN  IF sign_final_verify(plaintext, signature, key)
           THEN [rc |-> 0, plaintext |-> plaintext]
           ELSE [rc |-> -1, plaintext |-> << >>]

\* a verify that takes a public key of any size
pubkey_size_unchecked(key) == FALSE

\* if (pubkey.size() != KEYSIZE_PUBKEY)
pubkey_size_wrong(key) == key.size # KEYSIZE_PUBKEY

\* a verify that takes an input of any size
input_size_unchecked(plaintext_with_signature) == FALSE

\* if (plaintext_with_signature.size() < SIGNATURE_SIZE)
input_too_small(plaintext_with_signature) ==
  Len(plaintext_with_signature) < SIGNATURE_SIZE

\* SignorPK::sign: the signature followed by the plaintext
SignorPK_sign(plaintext, key) == crypto_sign(plaintext, key)

\* SignorPK::verify: opened tells whether crypto_sign_open was called
SignorPK_verify(plaintext_with_signature, key) ==
  IF pubkey_size_wrong(key)
  THEN [error |-> "wrong pubkey size", opened |-> FALSE, plaintext |-> << >>]
  ELSE IF input_too_small(plaintext_with_signature)
  THEN [error |-> "plaintext_with_signature too small for signature",
        opened |-> FALSE, plaintext |-> << >>]
  ELSE LET res == crypto_sign_open(plaintext_with_signature, key)
       IN  IF res.rc = -1
           THEN [error |-> "signature didn't verify", opened |-> TRUE,
                 plaintext |-> << >>]
           ELSE IF Len(res.plaintext) # Len(plaintext_with_signature) - SIGNATURE_SIZE
           THEN [error |-> "wrong plaintext size", opened |-> TRUE,
                 plaintext |-> << >>]
           ELSE [error |-> "", opened |-> TRUE, plaintext |-> res.plaintext]

\* what may reach verify in place of a signed message: the signed message,
\* one with a byte of the signature or of the message altered, its first
\* bytes only (none, one less than a signature, the signature alone, all but
\* the last byte), and one with a byte more
Presented(signed) ==
  {signed, Append(signed, 0)}
    \cup {Altered(signed, i, Junk) : i \in SignaturePositions}
    \cup {[signed EXCEPT ![i] = 1 - signed[i]] : i \in (SIGNATURE_SIZE + 1)..Len(signed)}
    \cup {SubSeq(signed, 1, n) :
            n \in {0, SIGNATURE_SIZE - 1, SIGNATURE_SIZE, Len(signed) - 1}}

\* the public keys that may reach verify: of either pair, one byte short,
\* of the right size, one byte long
PubKeys ==
  {SizedKey(pubkey(pair), n) :
     pair \in KeyPairs, n \in (KEYSIZE_PUBKEY - 1)..(KEYSIZE_PUBKEY + 1)}

SignorSign ==
  /\ sign.pc = "signor"
  /\ sign.step = "sign"
  /\ sign' = [sign EXCEPT
                 !.signed = SignorPK_sign(sign.message, privkey(sign.pair)),
                 !.step = "verify"]
  /\ UNCHANGED <<streamVars, aead, conc>>

SignorVerify ==
  /\ sign.pc = "signor"
  /\ sign.step = "verify"
  /\ \E input \in Presented(sign.signed), key \in PubKeys :
        sign' = [sign EXCEPT
                   !.given = [input |-> input, key |-> key],
                   !.result = SignorPK_verify(input, key),
                   !.step = "done"]
  /\ UNCHANGED <<streamVars, aead, conc>>

NextSignor ==
  \/ SignorSign
  \/ SignorVerify

InitSignor ==
  /\ StreamIdle
  /\ aead = [pc |-> "idle"]
  /\ conc = [pc |-> "idle"]
  /\ \E m \in Samples, pair \in KeyPairs :
        sign = [pc |-> "signor",
                step |-> "sign",
                message |-> m,
                pair |-> pair,
                signed |-> << >>,
                given |-> [input |-> << >>, key |-> SizedKey(pubkey(pair), KEYSIZE_PUBKEY)],
                result |-> [error |-> "", opened |-> FALSE, plaintext |-> << >>]]

\* a message is signed, and verify is called on what arrives, with the
\* public key it is given
SpecSignor == InitSignor /\ [][NextSignor]_vars

\* crypto_auth: Auth_MACSIZE bytes that together determine the key and the
\* whole plaintext (no forgery): byte j is a term over the key and the j-th
\* slice of the plaintext
crypto_auth(plaintext, key) ==
  [j \in 1..Auth_MACSIZE |->
     [ak |-> key.name, ad |-> Slice(plaintext, j, Auth_MACSIZE), ai |-> j]]

\* crypto_auth_verify: 0 when the MAC is the one of plaintext and key, else -1
crypto_auth_verify(mac, plaintext, key) ==
  IF mac = crypto_auth(plaintext, key) THEN 0 ELSE -1

\* a Key of size bytes
AuthKey(name, size) == [name |-> name, size |-> size]

\* a verify that takes a MAC of any size
mac_size_unchecked(mac) == FALSE

\* if (mac_size != Auth::MACSIZE)
mac_size_wrong(mac) == Len(mac) # Auth_MACSIZE

\* a verify that takes a key of any size
key_size_unchecked(key) == FALSE

\* if (key_size != Auth::KEYSIZE_AUTH)
key_size_wrong(key) == key.size # KEYSIZE_AUTH

\* Auth::auth: the MAC of the plaintext under the key
Auth_auth(plaintext, key) ==
  IF key.size # KEYSIZE_AUTH
  THEN [error |-> "Sodium::Auth::auth() key wrong size", mac |-> << >>]
  ELSE [error |-> "", mac |-> crypto_auth(plaintext, key)]

\* Auth::verify: value is what it returns when it does not throw
Auth_verify(plaintext, mac, key) ==
  IF mac_size_wrong(mac)
  THEN [error |-> "Sodium::Auth::verify() mac wrong size", value |-> FALSE]
  ELSE IF key_size_wrong(key)
  THEN [error |-> "Sodium::Auth::verify() key wrong size", value |-> FALSE]
  ELSE [error |-> "", value |-> crypto_auth_verify(mac, plaintext, key) = 0]

\* the keys a call may be given: either of two keys, one byte short, of
\* the right size, one byte long
AuthKeys ==
  {AuthKey(k, n) : k \in AeadKeys, n \in (KEYSIZE_AUTH - 1)..(KEYSIZE_AUTH + 1)}

\* the MACs that may reach verify in place of a MAC: the MAC, one with its
\* first, a middle or its last byte altered, one a byte short, one a byte
\* long, and none
Macs(mac) ==
  {mac, Append(mac, Junk), << >>}
    \cup {Altered(mac, i, Junk) : i \in {1, Auth_MACSIZE \div 2, Auth_MACSIZE}}
    \cup {SubSeq(mac, 1, Auth_MACSIZE - 1)}

AuthAuth ==
  /\ aead.pc = "auth"
  /\ aead.step = "auth"
  /\ LET res == Auth_auth(aead.plaintext, aead.key)
     IN  aead' = [aead EXCEPT
                    !.made = res,
                    !.step = IF res.error = "" THEN "verify" ELSE "thrown"]
  /\ UNCHANGED <<streamVars, conc, sign>>

AuthVerify ==
  /\ aead.pc = "auth"
  /\ aead.step = "verify"
  /\ \E p \in Messages(aead.plaintext), mac \in Macs(aead.made.mac), key \in AuthKeys :
        aead' = [aead EXCEPT
                   !.given = [plaintext |-> p, mac |-> mac, key |-> key],
                   !.result = Auth_verify(p, mac, key),
                   !.step = "done"]
  /\ UNCHANGED <<streamVars, conc, sign>>

NextAuth ==
  \/ AuthAuth
  \/ AuthVerify

InitAuth ==
  /\ StreamIdle
  /\ conc = [pc |-> "idle"]
  /\ sign = [pc |-> "idle"]
  /\ \E p \in Samples, key \in AuthKeys :
        aead = [pc |-> "auth",
                step |-> "auth",
                plaintext |-> p,
                key |-> key,
                made |-> [error |-> "", mac |-> << >>],
                given |-> [plaintext |-> p, mac |-> << >>, key |-> key],
                result |-> [error |-> "", value |-> FALSE]]

\* a MAC is computed for a plaintext, and verify is called on what arrives
SpecAuth == InitAuth /\ [][NextAuth]_vars

NextReuse == Next \/ NextCall

InitReuse == InitFor({"reuse"}, {"K1"}, {NonceCarry}, FALSE)

\* one instance is called again and again, some calls failing midway
SpecReuse == InitReuse /\ [][NextReuse]_vars

\* ------------------------------------------------------------------------
\* Vocabulary of the properties
\* ------------------------------------------------------------------------

\* the plaintext given to encrypt
PlainIn == ecall.istr.data

\* the stream encrypt wrote
CipherOut == ecall.ostr.data

\* the plaintext decrypt wrote
PlainOut == dcall.ostr.data

Encrypted == ecall.pc = "returned"

DecryptEnded == stage = "decrypt" /\ dcall.pc \in {"returned", "thrown"}

DecryptFailed(kind) == stage = "decrypt" /\ dcall.pc = "thrown" /\ dcall.error = kind

\* ceil(n / b)
CeilDiv(n, b) == (n + b - 1) \div b

Max(a, b) == IF a >= b THEN a ELSE b

Min(a, b) == IF a <= b THEN a ELSE b

\* the chunk (counted from 1) that holds position at of the stream
ChunkOf(log, at) == CHOOSE i \in 1..Len(log) : SumSizes(log, i - 1) < at /\ at <= SumSizes(log, i)

\* every block opened so far verified
AllOpenedOk == \A i \in 1..Len(dcall.opened) : dcall.opened[i].ok

\* ------------------------------------------------------------------------
\* C1  Round trip
\* ------------------------------------------------------------------------

\* C1: decrypt of the untouched output of encrypt(P), by an instance with
\* the same key, base nonce, blocksize and digest key, returns normally and
\* has written exactly P.
C1_RoundTrip ==
  DecryptEnded => (dcall.pc = "returned" /\ PlainOut = PlainIn)

\* ------------------------------------------------------------------------
\* C2  The empty input
\* ------------------------------------------------------------------------

C4_ChunkTamperDetected ==
  DecryptEnded =>
    LET k == ChunkOf(ecall.sealed, attack.at)
    IN  /\ DecryptFailed("AuthFailure")
        /\ Len(dcall.opened) = k
        /\ \A i \in 1..(k - 1) : dcall.opened[i].ok
        /\ ~dcall.opened[k].ok
        /\ dcall.opened[k].size = MACSIZE + ecall.sealed[k].size

\* the final chunk of a stream of several chunks was altered and rejected
C4_Witness ==
  /\ DecryptFailed("AuthFailure")
  /\ attack.kind = "tamper"
  /\ Len(ecall.sealed) >= 2
  /\ ChunkOf(ecall.sealed, attack.at) = Len(ecall.sealed)

\* ------------------------------------------------------------------------
\* C5  Truncation
\* ------------------------------------------------------------------------

\* C5: with the last chunk removed and the original trailer kept, decrypt
\* ends with IntegrityFailure after opening every remaining chunk
\* successfully.
C5_TruncationIntegrityFailure ==
  DecryptEnded =>
    /\ DecryptFailed("IntegrityFailure")
    /\ Len(dcall.opened) = Len(ecall.sealed) - 1
    /\ AllOpenedOk

\* ------------------------------------------------------------------------
\* C6  Another AEAD key
\* ------------------------------------------------------------------------

C7_WrongBlockFails ==
  DecryptEnded => dcall.pc = "thrown"

\* C7 amended: decrypt with another blocksize fails whenever the plaintext
\* is longer than the smaller of the two blocksizes; the failure is an
\* AuthFailure on the first block opened, and nothing is written.
C7_WrongBlockFailsBeyondOneBlock ==
  (DecryptEnded /\ Len(PlainIn) > Min(enc.blocksize_, dec.blocksize_)) =>
    /\ DecryptFailed("AuthFailure")
    /\ Len(dcall.opened) = 1
    /\ ~dcall.opened[1].ok
    /\ PlainOut = << >>

\* a plaintext longer than the smaller blocksize was rejected
C7_Witness ==
  /\ DecryptEnded
  /\ attack.kind = "wrongblock"
  /\ dec.blocksize_ # enc.blocksize_
  /\ Len(PlainIn) > Min(enc.blocksize_, dec.blocksize_)
  /\ dcall.pc = "thrown"

\* ------------------------------------------------------------------------
\* C8  Another base nonce
\* ------------------------------------------------------------------------

EncryptedUnder(n) ==
  LET other == [enc EXCEPT !.nonce_ = n]
  IN  EncryptRun(other, EncryptBegin(other, PlainIn, -1))

ChunkSizes(log) == [i \in 1..Len(log) |-> log[i].size]

SameStructure(c1, c2) ==
  /\ Len(c1.ostr.data) = Len(c2.ostr.data)
  /\ ChunkSizes(c1.sealed) = ChunkSizes(c2.sealed)

FullChunks == {i \in 1..Len(ecall.sealed) : ecall.sealed[i].size = enc.blocksize_}

\* C10: the i-th chunk (from 0) is sealed under base nonce + i, no two
\* chunks of a stream are sealed under the same nonce, and the running nonce
\* is the base nonce advanced once per full chunk, so not after the final one.
C10_NonceDiscipline ==
  /\ \A i \in 1..Len(ecall.sealed) : ecall.sealed[i].nonce = NonceAdd(enc.nonce_, i - 1)
  /\ \A i, j \in 1..Len(ecall.sealed) :
        i # j => ecall.sealed[i].nonce # ecall.sealed[j].nonce
  /\ ecall.running_nonce = NonceAdd(enc.nonce_, Cardinality(FullChunks))

\* encrypt returned after a full chunk and a final partial one, the running
\* nonce still the one the final chunk was sealed under
C10_Witness ==
  /\ Encrypted
  /\ Len(ecall.sealed) >= 2
  /\ ecall.sealed[Len(ecall.sealed)].size < enc.blocksize_
  /\ ecall.running_nonce = ecall.sealed[Len(ecall.sealed)].nonce

\* ------------------------------------------------------------------------
\* C11  The saved nonce
\* ------------------------------------------------------------------------

\* some call the instance has behind it ended with the given outcome
Earlier(outcome) == \E i \in 1..Len(history) : history[i].outcome = outcome

\* C11: whatever calls the instance has behind it and whatever the call in
\* progress has done, successful or failed, the nonce_ saved in the instance
\* is the nonce given at construction; only the call's copy moves on.
C11_BaseNonceUnchanged ==
  /\ enc.nonce_ = built.nonce_
  /\ dec.nonce_ = built.nonce_

\* after an encrypt call that failed midway and a decrypt call that failed,
\* a decrypt call has advanced its running nonce
C11_Witness ==
  /\ Earlier("IOFailure")
  /\ Earlier("AuthFailure")
  /\ stage = "decrypt"
  /\ dcall.running_nonce # built.nonce_
  /\ ecall.running_nonce # built.nonce_

\* ------------------------------------------------------------------------
\* C12  No state carried from call to call
\* ------------------------------------------------------------------------

\* the same encrypt call on an instance fresh from the constructor
FreshEncrypt == EncryptRun(built, EncryptBegin(built, PlainIn, RoomGiven(ecall.ostr)))

\* the same decrypt call on an instance fresh from the constructor
FreshDecrypt == DecryptRun(built, DecryptBegin(built, file, -1))

\* C12: an encrypt or decrypt call that ended, after whatever calls the
\* instance has behind it, has written what the same call writes on a fresh
\* instance and has ended the same way.
C12_NoCrossCallState ==
  /\ (stage = "encrypt" /\ ecall.pc \in {"returned", "thrown"}) =>
        /\ CipherOut = FreshEncrypt.ostr.data
        /\ Outcome(ecall) = Outcome(FreshEncrypt)
  /\ DecryptEnded =>
        /\ PlainOut = FreshDecrypt.ostr.data
        /\ Outcome(dcall) = Outcome(FreshDecrypt)

\* a decrypt call returned a nonempty plaintext after an encrypt call that
\* failed midway and a decrypt call that failed
C12_Witness ==
  /\ Earlier("IOFailure")
  /\ Earlier("AuthFailure")
  /\ DecryptEnded
  /\ dcall.pc = "returned"
  /\ PlainOut # << >>

\* ------------------------------------------------------------------------
\* C13  The trailer
\* ------------------------------------------------------------------------

\* the plaintext of the first k chunks sealed
PlainUpTo(k) == SubSeq(PlainIn, 1, SumSizes(ecall.sealed, k) - k * MACSIZE)

\* the i-th chunk as sealed: MAC and ciphertext of the i-th block of the
\* plaintext under the nonce it was sealed with
SealedChunk(i) ==
  aead_encrypt(enc.header_,
               SubSeq(PlainIn, Len(PlainUpTo(i - 1)) + 1, Len(PlainUpTo(i))),
               enc.key_, ecall.sealed[i].nonce)

\* the first n chunks sealed, one after the other
RECURSIVE SealedChunks(_)
SealedChunks(n) == IF n = 0 THEN << >> ELSE SealedChunks(n - 1) \o SealedChunk(n)

\* C13: when encrypt has returned, the stream is the chunks in the order
\* they were sealed followed by hashsize bytes and nothing more, and those
\* bytes are the keyed digest of all the chunks, the final partial one
\* included.
C13_TrailerIsDigestOfChunks ==
  Encrypted =>
    LET body == SealedChunks(Len(ecall.sealed))
        n    == Len(CipherOut)
        h    == enc.hashsize_
    IN  /\ n = Len(body) + h
        /\ SubSeq(CipherOut, 1, n - h) = body
        /\ SubSeq(CipherOut, n - h + 1, n) = generichash_final(body, enc.hashkey_, h)

\* encrypt returned after full chunks and a final partial chunk
C13_Witness ==
  /\ Encrypted
  /\ Len(ecall.sealed) >= 2
  /\ ecall.sealed[Len(ecall.sealed)].size \in 1..(enc.blocksize_ - 1)

\* ------------------------------------------------------------------------
\* C14  The length of the stream
\* ------------------------------------------------------------------------

\* C14: when encrypt has returned, the stream is hashsize bytes longer than
\* its chunks together; every chunk but the last is MACSIZE + blocksize
\* bytes, the last MACSIZE + r bytes with 0 <= r <= blocksize, and each of
\* these byte ranges of the stream is a chunk that verifies.
C14_StreamLength ==
  Encrypted =>
    LET n == Len(ecall.sealed)
    IN  /\ Len(CipherOut) = enc.hashsize_ + SumSizes(ecall.sealed, n)
        /\ \A i \in 1..(n - 1) : ecall.sealed[i].size = enc.blocksize_
        /\ n >= 1 => ecall.sealed[n].size \in 0..enc.blocksize_
        /\ \A i \in 1..n :
              aead_decrypt(enc.header_, Chunk(CipherOut, ecall.sealed, i),
                           enc.key_, ecall.sealed[i].nonce).ok

\* encrypt returned a stream of full chunks only, with a trailer longer
\* than a MAC
C14_Witness ==
  /\ Encrypted
  /\ Len(ecall.sealed) >= 2
  /\ ecall.sealed[Len(ecall.sealed)].size = enc.blocksize_
  /\ enc.hashsize_ > MACSIZE

\* ------------------------------------------------------------------------
\* C15  A chunk that fails authentication
\* ------------------------------------------------------------------------

\* C15: as soon as a chunk has failed to verify, decrypt has thrown: the
\* failed chunk is the last block opened, and the sink holds the plaintext
\* of the chunks before it and nothing else.
C15_StopsAtFailedChunk ==
  (stage = "decrypt" /\ \E i \in 1..Len(dcall.opened) : ~dcall.opened[i].ok) =>
    LET k == Len(dcall.opened)
    IN  /\ DecryptFailed("AuthFailure")
        /\ ~dcall.opened[k].ok
        /\ \A i \in 1..(k - 1) : dcall.opened[i].ok
        /\ PlainOut = PlainUpTo(k - 1)

\* a chunk in the middle failed: plaintext was written before it and
\* chunks after it were never opened
C15_Witness ==
  /\ DecryptFailed("AuthFailure")
  /\ Len(dcall.opened) >= 2
  /\ Len(dcall.opened) < Len(ecall.sealed)
  /\ PlainOut # << >>

\* ------------------------------------------------------------------------
\* C16  When the hashes are compared
\* ------------------------------------------------------------------------

\* C16: when decrypt has thrown IntegrityFailure, every chunk of the stream
\* has been opened and verified and the whole plaintext is in the sink.
C16_IntegrityFailureComesLast ==
  DecryptFailed("IntegrityFailure") =>
    /\ Len(dcall.opened) = Len(ecall.sealed)
    /\ AllOpenedOk
    /\ PlainOut = PlainIn

\* IntegrityFailure after several chunks, the last one opened after the
\* loop from a short read
C16_Witness ==
  /\ DecryptFailed("IntegrityFailure")
  /\ attack.kind = "trailer"
  /\ Len(dcall.opened) >= 2
  /\ dcall.opened[Len(dcall.opened)].size < MACSIZE + dec.blocksize_
  /\ dcall.ifs.fail

\* ------------------------------------------------------------------------
\* C17  A corrupted trailer
\* ------------------------------------------------------------------------

\* C17: with one byte of the trailer altered and the chunks intact, decrypt
\* ends with IntegrityFailure.
C17_TrailerCorruptionDetected ==
  DecryptEnded => DecryptFailed("IntegrityFailure")

\* ------------------------------------------------------------------------
\* C18  Chunks dropped, duplicated or reordered
\* ------------------------------------------------------------------------

\* C18: decrypt of a stream whose whole chunks were dropped, duplicated or
\* reordered, the trailer kept, never returns normally.
C18_RearrangementRejected ==
  DecryptEnded => dcall.pc = "thrown"

\* decrypt threw on a stream whose chunks, all present once, came in
\* another order
C18_Witness ==
  /\ DecryptEnded
  /\ dcall.pc = "thrown"
  /\ attack.kind = "rearrange"
  /\ Len(attack.order) = Len(ecall.sealed)
  /\ {attack.order[i] : i \in 1..Len(attack.order)} = 1..Len(ecall.sealed)

\* ------------------------------------------------------------------------
\* C19  What the sink holds
\* ------------------------------------------------------------------------

\* the blocks opened so far that verified
OpenedOk == {i \in 1..Len(dcall.opened) : dcall.opened[i].ok}

\* C19: at every moment of a decrypt call, and after it has failed, the
\* sink holds the plaintext of the chunks verified so far: the first chunks
\* of P, whole, in order, each once.
C19_SinkIsPrefixOfWholeChunks ==
  stage = "decrypt" =>
    /\ Cardinality(OpenedOk) <= Len(ecall.sealed)
    /\ PlainOut = PlainUpTo(Cardinality(OpenedOk))

\* decrypt failed at the third chunk and the sink still holds the first two
C19_Witness ==
  /\ DecryptFailed("AuthFailure")
  /\ attack.kind = "tamper"
  /\ Len(dcall.opened) = 3
  /\ PlainOut = PlainUpTo(2)
  /\ Len(PlainOut) >= 2

\* ------------------------------------------------------------------------
\* C20  A file shorter than the trailer
\* ------------------------------------------------------------------------

\* C20: decrypt of a file shorter than hashsize bytes has thrown as soon as
\* it has started: nothing was read, no chunk was opened and nothing was
\* written.
C20_ShortInputFailsAtOnce ==
  (stage = "decrypt" /\ Len(file) < dec.hashsize_) =>
    /\ dcall.pc = "thrown"
    /\ dcall.ifs.pos = 0
    /\ dcall.ifs.gcount = 0
    /\ dcall.opened = << >>
    /\ PlainOut = << >>

\* decrypt threw on a nonempty file one byte shorter than the trailer
C20_Witness ==
  /\ stage = "decrypt"
  /\ attack.kind = "cut"
  /\ Len(file) = dec.hashsize_ - 1
  /\ dcall.pc = "thrown"
  /\ dcall.error = "IOFailure"

\* ------------------------------------------------------------------------
\* C21  A write that fails during encrypt
\* ------------------------------------------------------------------------

\* the chunks encrypt has started to write when the sink took room bytes
\* of the stream whose sealed blocks are log
Begun(log, room) ==
  Cardinality({i \in 1..Len(log) : SumSizes(log, i - 1) <= room})

\* C21: as soon as a write of encrypt has failed (in a full chunk, in the
\* final chunk or in the trailer) the call has thrown IOFailure; the sink
\* holds exactly the bytes it took before, which are the first bytes of
\* the stream, and no chunk after the one whose write failed was sealed.
C21_WriteFailureAborts ==
  (stage = "encrypt" /\ ecall.ostr.fail) =>
     LET whole == EncryptRun(enc, EncryptBegin(enc, PlainIn, -1))
         room  == RoomGiven(ecall.ostr)
     IN  /\ ecall.pc = "thrown"
         /\ ecall.error = "IOFailure"
         /\ CipherOut = SubSeq(whole.ostr.data, 1, room)
         /\ Len(ecall.sealed) = Begun(whole.sealed, room)

\* the write of the second full chunk failed midway: the first chunk stays
\* written, more input was left to read
C21_Witness ==
  /\ stage = "encrypt"
  /\ ecall.ostr.fail
  /\ ecall.pc = "thrown"
  /\ Len(ecall.sealed) = 2
  /\ Len(CipherOut) > MACSIZE + enc.blocksize_
  /\ ~ecall.istr.fail
  /\ ecall.istr.pos < Len(PlainIn)

\* ------------------------------------------------------------------------
\* C22  A read that fails during encrypt
\* ------------------------------------------------------------------------

\* C22: an encrypt call whose source broke down (a read failed for a reason
\* other than end of input) ends by throwing IOFailure: it never returns
\* normally, so it never writes a trailer.
C22_SourceFailureIsFatal ==
  (ecall.istr.badbit /\ ecall.pc \notin {"loop", "final"}) =>
     (ecall.pc = "thrown" /\ ecall.error = "IOFailure")

\* ------------------------------------------------------------------------
\* C23  The blocksize is validated by the constructor
\* ------------------------------------------------------------------------

\* C23: a constructor called with a blocksize below 1 throws a
\* configuration error, and no encrypt or decrypt call ever starts on such
\* an instance; a constructor called with any blocksize from 1 up returns,
\* and the instance has that blocksize.
C23_BlocksizeValidated ==
  stage # "construct" =>
     IF enc.blocksize_ < 1
     THEN /\ stage = "rejected"
          /\ history = << [op |-> "construct", outcome |-> "ConfigurationError"] >>
          /\ ecall = IdleCall
          /\ dcall = IdleCall
     ELSE /\ stage # "rejected"
          /\ history = << >>
          /\ ecall # IdleCall
          /\ built.blocksize_ = enc.blocksize_

\* the constructor was called with blocksize 0 and threw
C23_Witness ==
  /\ stage = "rejected"
  /\ enc.blocksize_ = 0
  /\ history # << >>

\* ------------------------------------------------------------------------
\* C25  Length of what CryptorAEAD::encrypt returns
\* ------------------------------------------------------------------------

\* C25: for every plaintext, the empty one included, and every header,
\* whatever its size, encrypt returns len(plaintext) + MACSIZE bytes.
C25_CiphertextLength ==
  aead.pc \in {"sealed", "sent", "opened"} =>
     Len(aead.ciphertext) = Len(aead.plaintext) + MACSIZE

\* a plaintext that is not empty was encrypted with a header longer than
\* a MAC
C25_Witness ==
  /\ aead.pc = "sealed"
  /\ aead.header = BigHeader
  /\ Len(aead.plaintext) = MaxLen
  /\ Len(aead.ciphertext) = MaxLen + MACSIZE

\* ------------------------------------------------------------------------
\* C26  CryptorAEAD::decrypt returns the plaintext or fails
\* ------------------------------------------------------------------------

\* decrypt was given what encrypt was given and what it returned
GivenAsSealed ==
  aead.given = [header |-> aead.header, ciphertext |-> aead.ciphertext,
                key |-> aead.key, nonce |-> aead.nonce]

\* C26: decrypt returns if and only if the MAC with the ciphertext, the
\* header, the key and the nonce are all the ones of the encrypt call, and
\* then it returns the plaintext that was encrypted; otherwise it fails and
\* returns no plaintext.
C26_DecryptIffUntouched ==
  aead.pc = "opened" =>
     /\ aead.result.ok <=> GivenAsSealed
     /\ aead.result.ok => aead.result.plaintext = aead.plaintext
     /\ ~aead.result.ok => aead.result.plaintext = << >>

\* decrypt failed where only the header differs from the one encrypted with
C26_Witness ==
  /\ aead.pc = "opened"
  /\ ~aead.result.ok
  /\ aead.given.header # aead.header
  /\ aead.given.ciphertext = aead.ciphertext
  /\ aead.given.key = aead.key
  /\ aead.given.nonce = aead.nonce
  /\ aead.plaintext # << >>

\* ------------------------------------------------------------------------
\* C27  Calls on independent instances at the same time
\* ------------------------------------------------------------------------

\* call i has returned or thrown
ConcEnded(i) == conc.call[i].pc \in {"returned", "thrown"}

\* C27: when encrypt and decrypt calls run at the same time on two
\* instances constructed from the same key, their steps interleaved in any
\* way, each call ends as it ends when run alone on its instance (same
\* bytes written, same outcome), and each instance is left as constructed.
C27_IndependentInstances ==
  conc.pc = "run" =>
     \A i \in Ops :
        /\ conc.inst[i] = conc.made[i]
        /\ ConcEnded(i) =>
              conc.call[i] = CallRun(conc.kind[i], conc.made[i], conc.begun[i])

\* an encrypt call of several chunks and a decrypt call of several chunks,
\* on instances with the same key, have both returned after taking turns
C27_Witness ==
  /\ conc.pc = "run"
  /\ conc.kind = <<"encrypt", "decrypt">>
  /\ \A i \in Ops : conc.call[i].pc = "returned"
  /\ conc.switches >= 3
  /\ Len(conc.call[1].sealed) >= 2
  /\ Len(conc.call[2].opened) >= 2
  /\ conc.made[1].key_ = conc.made[2].key_

\* ------------------------------------------------------------------------
\* C28  Signing a stream and verifying it
\* ------------------------------------------------------------------------

\* a verify call has returned
Verified == sign.pc = "run" /\ sign.vcall.pc = "returned"

\* what verify was given is what was signed, and its key is the public key
\* of the signor's pair
SameMessage == sign.vcall.istr.data = sign.message

SameSignature == sign.vcall.signature = sign.scall.signature

SamePair == sign.verifier.pubkey_.pair = sign.signor.privkey_.pair

\* C28: the signature sign returns has SIGNATURE_SIZE bytes, and verify
\* over the same message with that signature and the public key of the
\* signor's pair returns true, for every message, the empty one included,
\* and whatever the blocksizes the signor and the verifier read with.
C28_SignVerifyRoundTrip ==
  /\ (sign.pc = "run" /\ sign.scall.pc = "returned") =>
        Len(sign.scall.signature) = SIGNATURE_SIZE
  /\ (Verified /\ SameMessage /\ SameSignature /\ SamePair) =>
        sign.vcall.result = TRUE

\* a message of several blocks and a partial one was signed reading with
\* one blocksize and verified reading with another
C28_Witness ==
  /\ Verified
  /\ SameMessage /\ SameSignature /\ SamePair
  /\ sign.vcall.result = TRUE
  /\ Len(sign.message) = MaxLen
  /\ sign.signor.blocksize_ = 1
  /\ sign.verifier.blocksize_ = 2

\* ------------------------------------------------------------------------
\* C29  What verify rejects
\* ------------------------------------------------------------------------

\* C29: verify returns false, and does not throw, whenever the signature
\* or the message is not the signed one or the verifier holds the public
\* key of another pair than the signor's; for every message, the empty one
\* included.
C29_VerifyRejects ==
  /\ (sign.pc = "run" /\ sign.vcall.pc \notin {"idle", "loop", "final"}) =>
        sign.vcall.pc = "returned"
  /\ (Verified /\ ~(SameMessage /\ SameSignature /\ SamePair)) =>
        sign.vcall.result = FALSE

\* the empty message, signed by one pair, was rejected by a verifier that
\* holds the public key of the other pair
C29_Witness ==
  /\ Verified
  /\ sign.message = << >>
  /\ SameMessage /\ SameSignature /\ ~SamePair
  /\ sign.vcall.result = FALSE

\* ------------------------------------------------------------------------
\* C30  verify leaves the verifier as constructed
\* ------------------------------------------------------------------------

\* the call that has returned, run on the verifier as constructed
FreshVerify ==
  VerifyRun(sign.made,
            VerifyBegin(sign.made, sign.vcall.istr.data, sign.vcall.signature)).c

\* C30: whatever verify calls the verifier has behind it, and whatever they
\* returned, a verify call returns what it returns on a verifier just
\* constructed, and leaves the internal state as the constructor made it.
C30_VerifyResetsState ==
  Verified =>
     /\ sign.vcall.result = FreshVerify.result
     /\ sign.verifier = sign.made

\* verify has returned true after a call that returned true and a call
\* that returned false on the same verifier
C30_Witness ==
  /\ Verified
  /\ sign.vcall.result = TRUE
  /\ TRUE \in {sign.results[i] : i \in 1..Len(sign.results)}
  /\ FALSE \in {sign.results[i] : i \in 1..Len(sign.results)}
  /\ sign.message # << >>

\* ------------------------------------------------------------------------
\* C31  When the final step of decrypt finds nothing left
\* ------------------------------------------------------------------------

\* the final step of decrypt looked at a short read (if (!in_hash), s != 0)
\* and, with the hash trimmed off, nothing of it was left to open
NothingLeft ==
  /\ DecryptEnded
  /\ ~dcall.in_hash
  /\ dcall.ifs.gcount # 0
  /\ dcall.ciphertext = << >>

\* C31: in decrypt of the stream encrypt wrote for P, the final step finds
\* nothing left after trimming the hash, and opens no final chunk, if and
\* only if len(P) is a multiple of blocksize, whatever hashsize is.
C31_NothingLeftIffMultiple ==
  (DecryptEnded /\ attack = NoAttack /\ dec = enc) =>
     (NothingLeft <=> Len(PlainIn) % enc.blocksize_ = 0)

\* ------------------------------------------------------------------------
\* C32  Decrypt keeps the chunk area and the saved hash apart
\* ------------------------------------------------------------------------

\* the i-th piece of the chunk area of the stream decrypt reads: the bytes
\* from (i-1) * (MACSIZE + blocksize) up to the next multiple or the start of
\* the saved hash, whichever comes first
AreaBlock(i) ==
  LET want == MACSIZE + dec.blocksize_
  IN  SubSeq(file, (i - 1) * want + 1, Min(i * want, ChunkArea(file, dec)))

\* the first n blocks handed to the AEAD, one after the other
RECURSIVE OpenedBytes(_)
OpenedBytes(n) == IF n = 0 THEN << >> ELSE OpenedBytes(n - 1) \o dcall.opened[n].bytes

\* every chunk of the stream was handled: decrypt got as far as comparing
\* the two hashes
AllChunksHandled ==
  DecryptEnded /\ dcall.error \in {"", "IntegrityFailure"}

\* C32: for a stream at least hashsize long, the blocks decrypt hands to the
\* AEAD are the pieces of the chunk area [0, L - hashsize) cut at multiples of
\* MACSIZE + blocksize, the digest is fed these blocks and nothing else, both
\* cover the whole chunk area once every chunk was handled, and after a read
\* that crossed into the saved hash the loop opens no further block.
C32_TrailerSeparation ==
  (stage = "decrypt" /\ Len(file) >= dec.hashsize_) =>
    LET n    == Len(dcall.opened)
        area == SubSeq(file, 1, ChunkArea(file, dec))
    IN  /\ \A i \in 1..n : dcall.opened[i].bytes = AreaBlock(i)
        /\ dcall.state \in {OpenedBytes(n), OpenedBytes(Max(n, 1) - 1)}
        /\ AllChunksHandled => (OpenedBytes(n) = area /\ dcall.state = area)
        /\ dcall.in_hash => OpenedBytes(n) = area
        /\ (dcall.in_hash /\ dcall.pc = "loop") =>
              /\ DecryptLoop(dec, dcall).pc = "final"
              /\ DecryptLoop(dec, dcall).opened = dcall.opened

\* a stream whose last full read crossed into the saved hash, with several
\* blocks opened and all of the chunk area folded into the digest
C32_Witness ==
  /\ AllChunksHandled
  /\ dec.hashsize_ > 0
  /\ dcall.in_hash
  /\ Len(dcall.opened) >= 2
  /\ dcall.state = SubSeq(file, 1, ChunkArea(file, dec))

\* ------------------------------------------------------------------------
\* C33  The sizes of the blocks decrypt opens
\* ------------------------------------------------------------------------

\* C33: on a stream encrypt produced with the same parameters, every block
\* decrypt hands to the AEAD has at least MACSIZE and at most
\* MACSIZE + blocksize bytes; in particular none is empty.
C33_NoShortBlockOpened ==
  (stage = "decrypt" /\ attack = NoAttack /\ dec = enc) =>
    \A i \in 1..Len(dcall.opened) :
       dcall.opened[i].size \in MACSIZE..(MACSIZE + dec.blocksize_)

\* ------------------------------------------------------------------------
\* C34  The nonces decrypt opens the chunks under
\* ------------------------------------------------------------------------

\* the last block was opened after the loop, by the final step
OpenedInFinal ==
  /\ DecryptEnded
  /\ dcall.ifs.fail
  /\ ~dcall.in_hash
  /\ dcall.ifs.gcount # 0
  /\ dcall.ciphertext # << >>

\* the blocks that were opened and verified inside the loop
OpenedInLoop ==
  {i \in 1..Len(dcall.opened) :
     dcall.opened[i].ok /\ ~(OpenedInFinal /\ i = Len(dcall.opened))}

\* C34: decrypt opens the i-th chunk (from 0) under base nonce + i, the
\* nonce encrypt sealed the i-th chunk under; the running nonce has been
\* advanced once for each chunk opened in the loop, and the final chunk is
\* opened under the value reached after the last of them.
C34_ChunkNonces ==
  stage = "decrypt" =>
    LET n == Len(dcall.opened)
    IN  /\ \A i \in 1..n : dcall.opened[i].nonce = NonceAdd(dec.nonce_, i - 1)
        /\ (attack = NoAttack /\ dec = enc) =>
              \A i \in 1..Min(n, Len(ecall.sealed)) :
                 dcall.opened[i].nonce = ecall.sealed[i].nonce
        /\ dcall.running_nonce = NonceAdd(dec.nonce_, Cardinality(OpenedInLoop))
        /\ OpenedInFinal =>
              /\ dcall.opened[n].nonce = dcall.running_nonce
              /\ Cardinality(OpenedInLoop) = n - 1

\* a stream of a full chunk and a final one, both opened, where the
\* increment of the base nonce carries into its second byte
C34_Witness ==
  /\ stage = "decrypt"
  /\ dcall.pc = "returned"
  /\ OpenedInFinal
  /\ Len(dcall.opened) = 2
  /\ dec.nonce_ = NonceCarry
  /\ dcall.opened[2].nonce = NonceNext
  /\ dcall.running_nonce = NonceNext

\* ------------------------------------------------------------------------
\* C35  How encrypt cuts the plaintext into chunks
\* ------------------------------------------------------------------------

\* the plaintext of the first n chunks that were sealed, one after the other
RECURSIVE SealedBytes(_)
SealedBytes(n) == IF n = 0 THEN << >> ELSE SealedBytes(n - 1) \o ecall.sealed[n].bytes

\* C35: the plaintexts of the chunks encrypt seals are, in order, consecutive
\* pieces of the input P and together all of P; every chunk but the last
\* holds blocksize bytes, and the last holds len(P) mod blocksize bytes when
\* that is not zero (blocksize bytes otherwise).
C35_PlaintextPartition ==
  LET n == Len(ecall.sealed)
      b == enc.blocksize_
  IN  /\ Len(SealedBytes(n)) <= Len(PlainIn)
      /\ SealedBytes(n) = SubSeq(PlainIn, 1, Len(SealedBytes(n)))
      /\ Encrypted =>
            /\ SealedBytes(n) = PlainIn
            /\ n = CeilDiv(Len(PlainIn), b)
            /\ \A i \in 1..(n - 1) : ecall.sealed[i].size = b
            /\ n > 0 =>
                  ecall.sealed[n].size =
                     IF Len(PlainIn) % b = 0 THEN b ELSE Len(PlainIn) % b

\* blocksize 4 and 9 bytes of plaintext: chunks of 4, 4 and 1 bytes
C35_Witness ==
  /\ Encrypted
  /\ enc.blocksize_ = 4
  /\ Len(PlainIn) = 9
  /\ ChunkSizes(ecall.sealed) = <<4, 4, 1>>

\* ------------------------------------------------------------------------
\* C36  Calls on one instance at the same time
\* ------------------------------------------------------------------------

\* call i run alone, from entry to end, on the instance self
Alone(i, self) ==
  CallRun(conc.kind[i], self, CallBegin(conc.kind[i], self, conc.input[i]))

\* call i run after call j has run to its end on the instance as made
After(i, j) == Alone(i, Touched(conc.made, Alone(j, conc.made)))

\* C36: two encrypt or decrypt calls on the same instance, each with its own
\* source and sink, entered at any moment and interleaved chunk by chunk in
\* any way, each end as they end when the two are run one after the other, in
\* either order (same bytes written, same outcome), and the instance is
\* never changed.
C36_SharedInstance ==
  conc.pc = "shared" =>
    /\ conc.inst = conc.made
    /\ \A i \in Ops :
          conc.call[i].pc \in {"returned", "thrown"} =>
             /\ conc.call[i] = Alone(i, conc.made)
             /\ conc.call[i] = After(i, 3 - i)

\* an encrypt call and a decrypt call of several chunks each on one
\* instance: the second was entered when the first had sealed a chunk, they
\* took turns, and both have returned
C36_Witness ==
  /\ conc.pc = "shared"
  /\ conc.kind = <<"encrypt", "decrypt">>
  /\ \A i \in Ops : conc.call[i].pc = "returned"
  /\ conc.after[2] >= 1
  /\ conc.switches >= 4
  /\ Len(conc.call[1].sealed) >= 2
  /\ Len(conc.call[2].opened) >= 2

\* ------------------------------------------------------------------------
\* C37  The reads of decrypt and the size of its buffer
\* ------------------------------------------------------------------------

\* C37: no read of decrypt asks for more bytes than its ciphertext buffer
\* holds at that moment; in particular, once the buffer was shrunk to cut
\* the saved hash off, no read of MACSIZE + blocksize bytes goes into it.
C37_ReadsFitBuffer ==
  stage = "decrypt" => ~dcall.overrun

\* ------------------------------------------------------------------------
\* C38  encrypt and decrypt come to an end
\* ------------------------------------------------------------------------

EncryptUnderWay == stage = "encrypt" /\ ecall.pc \in {"loop", "final"}

EncryptEnded == stage \in {"encrypt", "delivered", "decrypt"} /\ ecall.pc \in {"returned", "thrown"}

DecryptUnderWay == stage = "decrypt" /\ dcall.pc \in {"loop", "final"}

\* a call is under way, or it has ended in one of the outcomes; no read
\* has gone past the end of the input
OneOutcome ==
  /\ stage \in {"encrypt", "delivered", "decrypt"} =>
        /\ EncryptUnderWay \/ EncryptEnded
        /\ EncryptEnded => Outcome(ecall) \in {"returned", "IOFailure"}
        /\ ecall.istr.pos <= Len(ecall.istr.data)
  /\ stage = "decrypt" =>
        /\ DecryptUnderWay \/ DecryptEnded
        /\ DecryptEnded =>
              Outcome(dcall) \in {"returned", "AuthFailure", "IntegrityFailure", "IOFailure"}
        /\ dcall.ifs.pos <= Len(dcall.ifs.data)

\* a pass through the body of a loop (a chunk was sealed or opened) has
\* taken at least one more byte from the input
BodyConsumes ==
  /\ (EncryptUnderWay /\ Len(ecall'.sealed) > Len(ecall.sealed) /\ ecall.pc = "loop")
        => ecall'.istr.pos >= ecall.istr.pos + 1
  /\ (DecryptUnderWay /\ Len(dcall'.opened) > Len(dcall.opened) /\ dcall.pc = "loop")
        => dcall'.ifs.pos >= dcall.ifs.pos + 1

\* C38: on every finite input encrypt and decrypt end, in exactly one of
\* the outcomes success, AuthFailure, IntegrityFailure or I/O failure
\* (encrypt: success or I/O failure); no read goes past the end of the input
\* and every pass through a loop body takes at least one byte from it.
C38_Termination ==
  /\ []OneOutcome
  /\ [][BodyConsumes]_vars
  /\ EncryptUnderWay ~> EncryptEnded
  /\ DecryptUnderWay ~> DecryptEnded

\* decrypt has ended after several passes through its loop
C38_Witness ==
  /\ DecryptEnded
  /\ dcall.error = "IntegrityFailure"
  /\ Len(dcall.opened) >= 2
  /\ dcall.ifs.pos = Len(file)

\* ------------------------------------------------------------------------
\* C39  SignorPK::verify
\* ------------------------------------------------------------------------

\* a SignorPK::verify call has ended
SignorVerified == sign.pc = "signor" /\ sign.step = "done"

\* what verify was given is a signature followed by the message the
\* private key of the given public key's pair made it for
GenuineFor(input, key) ==
  /\ Len(input) >= SIGNATURE_SIZE
  /\ input = crypto_sign(SubSeq(input, SIGNATURE_SIZE + 1, Len(input)), privkey(key.pair))

\* C39: SignorPK::verify throws, without calling crypto_sign_open, when the
\* public key is not KEYSIZE_PUBKEY bytes long or the input is shorter than
\* SIGNATURE_SIZE; when it returns, it returns the len(input) -
\* SIGNATURE_SIZE bytes after the signature; and when the signature does not
\* verify it throws and returns no plaintext.
C39_SignorVerify ==
  SignorVerified =>
    LET input == sign.given.input
        key   == sign.given.key
        res   == sign.result
    IN  /\ key.size # KEYSIZE_PUBKEY => (res.error # "" /\ ~res.opened)
        /\ Len(input) < SIGNATURE_SIZE => (res.error # "" /\ ~res.opened)
        /\ res.error = "" =>
              /\ Len(res.plaintext) = Len(input) - SIGNATURE_SIZE
              /\ res.plaintext = SubSeq(input, SIGNATURE_SIZE + 1, Len(input))
              /\ GenuineFor(input, key)
        /\ ~GenuineFor(input, key) => (res.error # "" /\ res.plaintext = << >>)
        /\ (GenuineFor(input, key) /\ key.size = KEYSIZE_PUBKEY) => res.error = ""

\* verify has returned the message of a signed message of several bytes
C39_Witness ==
  /\ SignorVerified
  /\ sign.result.error = ""
  /\ sign.result.opened
  /\ Len(sign.result.plaintext) >= 2
  /\ sign.result.plaintext = sign.message

\* ------------------------------------------------------------------------
\* C40  Auth::verify
\* ------------------------------------------------------------------------

\* an Auth::verify call has ended
AuthVerified == aead.pc = "auth" /\ aead.step = "done"

\* C40: Auth::verify throws, and does not return false, when the MAC is not
\* MACSIZE bytes long or the key is not KEYSIZE_AUTH bytes long, the size of
\* the MAC being tested first; with both of the right size it returns, and
\* returns true exactly when the MAC is the one Auth::auth computes for the
\* plaintext and the key.
C40_AuthVerify ==
  AuthVerified =>
    LET p   == aead.given.plaintext
        mac == aead.given.mac
        key == aead.given.key
        res == aead.result
    IN  /\ Len(mac) # Auth_MACSIZE =>
              res.error = "Sodium::Auth::verify() mac wrong size"
        /\ (Len(mac) = Auth_MACSIZE /\ key.size # KEYSIZE_AUTH) =>
              res.error = "Sodium::Auth::verify() key wrong size"
        /\ (Len(mac) = Auth_MACSIZE /\ key.size = KEYSIZE_AUTH) =>
              /\ res.error = ""
              /\ Auth_auth(p, key).error = ""
              /\ res.value <=> (mac = Auth_auth(p, key).mac)

\* verify has returned true for the MAC auth made for a plaintext of
\* several bytes
C40_Witness ==
  /\ AuthVerified
  /\ aead.result.error = ""
  /\ aead.result.value
  /\ aead.given.plaintext = aead.plaintext
  /\ Len(aead.plaintext) >= 2

====
